---- MODULE Spec2Model ----
(***************************************************************************)
(* Model of scavenger's concurrent placement pipeline (the variant with    *)
(* the destination lock manager and the 'next' dispatch handshake):        *)
(* fileLocker, processFile, processDirectory, copyFile, moveFile, Stats.   *)
(*                                                                         *)
(* One dispatcher process walks the source tree (processDirectory is       *)
(* synchronous and recursive); every regular file becomes one task         *)
(* goroutine running processFile.  Each action is one step of a goroutine  *)
(* between two accesses to shared state (the destination tree, the lock    *)
(* table, the channels, the wait groups).                                  *)
(*                                                                         *)
(* Parts of the program that are looked at on their own have their own     *)
(* initial condition and next-state relation over the same variables:      *)
(* Stats.Count step by step, the extension test and the hidden-entry test  *)
(* with explicit inputs, getExifCreateDate and guessFileDestination as     *)
(* functions of the tags, and, from main.go, normalize and the processFile *)
(* that has -o in place of the lock manager.                               *)
(***************************************************************************)
EXTENDS Integers, Sequences, FiniteSets, TLC

\* ------------------------------------------------------------------ bounds

\* Largest value of -max-procs that is explored (Init draws 1..MaxProcs).
MaxProcs == 2

\* Number of distinct file contents a source file may have.
NumContents == 2

\* Largest numeric suffix of a candidate path ("-000", "-001", ...).
MaxSuffix == 2

\* Number of filesystem calls of one run that may return an I/O error.
MaxFaults == 1

\* The number of chunks io.Copy writes for one file.
NumChunks == 2

\* Number of Stats.Count calls each goroutine makes when Stats is looked at on
\* its own.
MaxCounts == 2

\* Longest string that is passed to normalize.
MaxLen == 4

\* ------------------------------------------------------------- source tree

\* The source tree that is walked: root holds file 1, the directory "sub"
\* and file 3; "sub" holds file 2.  dir.Readdir(-1) fixes the order.
Files == {1, 2, 3}

Dirs == {"root", "sub"}

Listing(d) ==
  IF d = "root"
  THEN << [kind |-> "file", file |-> 1, dir |-> "root"],
          [kind |-> "dir",  file |-> 0, dir |-> "sub"],
          [kind |-> "file", file |-> 3, dir |-> "root"] >>
  ELSE << [kind |-> "file", file |-> 2, dir |-> "sub"] >>

\* The directory whose processDirectory call dispatches file f.
DirOf(f) == IF f = 2 THEN "sub" ELSE "root"

\* The directories at or below d.
Below(d) == IF d = "root" THEN {"root", "sub"} ELSE {d}

\* ------------------------------------------------------- destination tree

\* Destinations guessFileDestination can produce for the files of the tree.
Bases == {"a", "b"}

Contents == 1..NumContents

\* The content of a path that holds no file (os.Stat and os.Open fail on it).
None == 0

\* No path: the task holds no claim, or has put no file anywhere.
NoPath == << >>

\* dstFileDir + "/" + dstFileBase + "-%03d" + dstFileExt
CandidatePath(b, i) == << b, i >>

Paths == { CandidatePath(b, i) : b \in Bases, i \in 0..MaxSuffix }

\* path.Dir(dstFile): every base lives in a directory of its own.
DirName(p) == p[1]

VARIABLES
  cfg,       \* the flags: dryRun, deleteOriginal, maxProcs
  content,   \* content of each source file when the run starts
  srcExists, \* whether the source file is still at its source path
  dst,       \* destination tree: path -> content, None when absent
  dstDirs,   \* destination directories that exist
  table,     \* fileLocks.table: the claimed paths
  watchers,  \* fileLocks.watchers: path -> sequence of waiting tasks' channels
  mu,        \* fileLocks.mu: 0 when free, else the task that holds it
  ui,        \* position of Unlock's loop over watchers[s]
  held,      \* the path each task has claimed (its deferred Unlock), or NoPath
  tpc,       \* position of each task goroutine
  base,      \* destination guessed for each file
  idx,       \* the suffix loop's i of each task
  outcome,   \* what processFile decided for the file
  failed,    \* whether processFile returned a non-nil error
  wrote,     \* the path a task's copyFile/moveFile put its file at, or NoPath
  stats,     \* the Stats counters
  tasks,     \* number of tokens in the tasks channel
  wg,        \* counter of each processDirectory call's sync.WaitGroup
  stack,     \* call stack of processDirectory: frames [dir, pos]
  tmpFiles,  \* tasks whose copyFile left its temporary file behind
  dpc,       \* position of the dispatcher (the goroutine running main)
  cur,       \* the file whose 'next' the dispatcher waits for
  ret,       \* what each processDirectory call returned: "none" (not yet), "nil", "err"
  faults,    \* I/O errors the filesystem has returned so far
  run,       \* which invocation of the program this is: 1, then 2
  log,       \* each invocation's flags and what it reported for each file
  tmpData,   \* chunks io.Copy has written to the temporary file of each task
  smu,       \* Stats.mu: 0 when free, else the goroutine inside Count
  call,      \* the Count call each goroutine is in: kind, increment, value read
  applied,   \* per kind, the sum of the increments of the Count calls that returned
  arg,       \* the input of the function that is looked at on its own
  res,       \* what that function returned for arg
  pcount,    \* photopy: the tasks started whose 'ok' was not received yet
  ok,        \* photopy: number of values in the buffered channel 'ok'
  mi,        \* photopy: the i of main's loop that waits for the tasks
  reg        \* photopy: the counter value each task read for its '++'

vars == << cfg, content, srcExists, dst, dstDirs, table, watchers, mu, ui, held,
           tpc, base, idx, outcome, failed, wrote, stats, tasks, wg, stack, dpc,
           cur, ret, tmpFiles, faults, run, log, tmpData, smu, call, applied,
           arg, res, pcount, ok, mi, reg >>

fsVars == << srcExists, dst, dstDirs, tmpFiles, faults >>

lockVars == << table, watchers, mu, ui, held >>

walkVars == << tasks, wg, stack, dpc, cur, ret >>

runVars == << run, log, tmpData >>

statVars == << smu, call, applied >>

funVars == << arg, res >>

photoVars == << pcount, ok, mi, reg >>

auxVars == << statVars, funVars, photoVars >>

\* What no step of the walk and of its tasks changes.
fixedVars == << cfg, content, auxVars >>

\* ---------------------------------------------------------------- helpers

StatKinds == { "unknown", "deleted", "duplicated", "skipped", "copied", "moved",
               "errored" }

\* A Count that adds i twice.
CountTwice(s, t, i) == [s EXCEPT ![t] = @ + i + i]

\* Stats.Count(t, i)
Count(s, t, i) == [s EXCEPT ![t] = @ + i]

\* Stats.Get(t)
Get(t) == stats[t]

\* The SHA1 digest of a content, hex encoded: equal exactly for equal contents.
Digest(c) == << "sha1", c >>

\* What fileHash returns instead of a digest when os.Open fails.
HashError == << "err", None >>

\* fileHash(file): the digest, or the error when the file does not exist.
fileHash(c) == IF c = None THEN HashError ELSE Digest(c)

\* The candidate of task f in the current iteration of the suffix loop.
Cand(f) == CandidatePath(base[f], idx[f])

\* os.Stat(dstFile) returns no error.
StatOk(p) == dst[p] # None

\* Files matter only up to equality of their contents, so the contents of the
\* source files are named in order of first appearance: file 1 holds content
\* 1, and each further file repeats an earlier content or holds the next one.
Canonical(c) ==
  /\ c[1] = 1
  /\ \A f \in Files \ {1} :
        \E g \in Files : g < f /\ c[f] <= c[g] + 1

\* verifyDirectory(dstFileDir) == nil
verifyDirectory(d) == d \in dstDirs

\* A filesystem call may return an I/O error now.
MayFail == faults < MaxFaults

\* The fault counter after a call that returned an error when err is TRUE.
Faulted(err) == IF err THEN faults + 1 ELSE faults

\* A run that treats -dry-run as not given.
DryRunIgnored == FALSE

\* -dry-run, as every branch of processFile reads it.
DryRun == cfg.dryRun

\* A return of processFile that leaves without running the deferred Unlock.
DeferredUnlockSkipped == "exit"

\* Where a return of processFile goes once AcquireLock has succeeded: to the
\* deferred fileLocks.Unlock(dstFile).
DeferredUnlock == "unlock"

\* The invocations of the program that are modelled: a first and a second.
Runs == 1..2

\* The report of a file that no task has finished yet.
NoReport == [kind |-> "none", path |-> NoPath]

\* What the log and the counters of a run say about file f once processFile
\* has returned: the kind of the decision and the candidate path it was
\* about (NoPath when the file never got one).
Classification(f) ==
  [kind |-> IF outcome[f] \in {"skipped", "unknown"} THEN outcome[f]
            ELSE IF failed[f] THEN "errored"
            ELSE IF outcome[f] = "duplicate" THEN "duplicate"
            ELSE "placed",
   path |-> IF base[f] = "none" THEN NoPath ELSE Cand(f)]

\* What the file's extension and tags made of f in the first invocation:
\* "skipped", "unknown" or its destination; "any" when no task has looked
\* at the file before.
Previous(f) ==
  IF run = 1 \/ log[1].reports[f].kind = "none" THEN "any"
  ELSE IF log[1].reports[f].kind \in {"skipped", "unknown"}
       THEN log[1].reports[f].kind
  ELSE DirName(log[1].reports[f].path)

\* The file's extension and tags can make t of f now: a file is the same
\* file, with the same tags, in every invocation.
Repeats(f, t) == Previous(f) \in {"any", t}

\* No Count call is under way and no function is looked at on its own.
NoCall == [pc |-> "none", t |-> "none", i |-> 0, v |-> 0, n |-> 0]

NoValue == [fn |-> "none"]

\* photopy's globals before main: 'var pcount = 0', no channel, no task.
PhotoIdle ==
  /\ pcount = 0
  /\ ok = 0
  /\ mi = 0
  /\ reg = [f \in Files |-> 0]

AuxInit ==
  /\ PhotoIdle
  /\ smu = 0
  /\ call = [f \in Files |-> NoCall]
  /\ applied = [k \in StatKinds |-> 0]
  /\ arg = NoValue
  /\ res = NoValue

\* The destinations some file has been given so far, in a task that is
\* running or in a report.
UsedBases ==
  { base[f] : f \in Files }
    \cup UNION { { DirName(log[r].reports[f].path) :
                     f \in { g \in Files : log[r].reports[g].path # NoPath } } :
                   r \in Runs }

\* Destinations matter only up to equality, so they are named in order of
\* first use: "a" is the destination of the first file that gets one, and
\* another name is used only for a file that differs from it.
InOrder(b) == b = "a" \/ "a" \in UsedBases

\* What main sets up before the walk: nothing claimed, no goroutine started,
\* a full tasks channel, zero counters, an empty destination directory.
Started ==
  /\ srcExists = [f \in Files |-> TRUE]
  /\ dst = [p \in Paths |-> None]
  /\ dstDirs = {}
  /\ table = {}
  /\ watchers = [p \in Paths |-> << >>]
  /\ mu = 0
  /\ ui = 0
  /\ held = [f \in Files |-> NoPath]
  /\ tpc = [f \in Files |-> "idle"]
  /\ base = [f \in Files |-> "none"]
  /\ idx = [f \in Files |-> 0]
  /\ outcome = [f \in Files |-> "none"]
  /\ failed = [f \in Files |-> FALSE]
  /\ wrote = [f \in Files |-> NoPath]
  /\ stats = [k \in StatKinds |-> 0]
  /\ tasks = cfg.maxProcs
  /\ wg = [d \in Dirs |-> 0]
  /\ stack = << [dir |-> "root", pos |-> 0] >>
  /\ dpc = "open"
  /\ cur = 0
  /\ ret = [d \in Dirs |-> "none"]
  /\ tmpFiles = {}
  /\ faults = 0
  /\ run = 1
  /\ log = [r \in Runs |-> [dryRun |-> cfg.dryRun, maxProcs |-> cfg.maxProcs,
                            reports |-> [f \in Files |-> NoReport]]]
  /\ tmpData = [f \in Files |-> 0]

Init ==
  /\ cfg \in [dryRun : BOOLEAN, deleteOriginal : BOOLEAN, maxProcs : 1..MaxProcs]
  /\ content \in { c \in [Files -> Contents] : Canonical(c) }
  /\ Started
  /\ AuxInit

taskVars == << tpc, base, idx, outcome, failed, wrote >>

\* ------------------------------------------------------------- fileLocker

\* AcquireLock without its test of the table: every call succeeds.
LockAbsentUnchecked(s) == TRUE

\* AcquireLock's test: s is not in f.table.
LockAbsent(s) == s \notin table

\* fileLocker.AcquireLock(dstFile), called by task f after os.Stat failed.
\* On true the task leaves the loop with its Unlock deferred.
AcquireLock(f) ==
  /\ tpc[f] = "acquire"
  /\ mu = 0
  /\ IF LockAbsent(Cand(f))
     THEN /\ table' = table \cup {Cand(f)}
          /\ held' = [held EXCEPT ![f] = Cand(f)]
          /\ tpc' = [tpc EXCEPT ![f] = "mkdir"]
     ELSE /\ tpc' = [tpc EXCEPT ![f] = "watch"]
          /\ UNCHANGED << table, held >>
  /\ UNCHANGED << fixedVars, runVars, fsVars, watchers, mu, ui, base, idx, outcome,
                  failed, wrote, stats, walkVars >>

\* fileLocker.WatchUnlock(dstFile): appends a fresh channel (named after the
\* task that will receive from it) under the mutex and returns it.
WatchUnlock(f) ==
  /\ tpc[f] = "watch"
  /\ mu = 0
  /\ watchers' = [watchers EXCEPT ![Cand(f)] = Append(@, f)]
  /\ tpc' = [tpc EXCEPT ![f] = "recv"]
  /\ UNCHANGED << fixedVars, runVars, fsVars, table, mu, ui, held, base, idx, outcome,
                  failed, wrote, stats, walkVars >>

\* '<-fileLocks.WatchUnlock(dstFile)', the receive: the task reaches it and
\* blocks until a send on its channel meets it.
AwaitUnlock(f) ==
  /\ tpc[f] = "recv"
  /\ tpc' = [tpc EXCEPT ![f] = "wait"]
  /\ UNCHANGED << fixedVars, runVars, fsVars, lockVars, base, idx, outcome, failed,
                  wrote, stats, walkVars >>

\* fileLocker.Unlock(s), the deferred call: takes the mutex.
UnlockBegin(f) ==
  /\ tpc[f] = "unlock"
  /\ mu = 0
  /\ mu' = f
  /\ ui' = 1
  /\ tpc' = [tpc EXCEPT ![f] = "unlocking"]
  /\ UNCHANGED << fixedVars, runVars, fsVars, table, watchers, held, base, idx,
                  outcome, failed, wrote, stats, walkVars >>

\* Unlock's loop body, c <- true, on the unbuffered channel: it completes
\* only together with the receive of the task the channel was made for,
\* which goes on to hash source and destination.  Until that task has
\* reached its receive, Unlock stays here with the mutex held.
UnlockSignal(f) ==
  /\ tpc[f] = "unlocking"
  /\ ui <= Len(watchers[held[f]])
  /\ LET w == watchers[held[f]][ui]
     IN /\ tpc[w] = "wait"
        /\ tpc' = [tpc EXCEPT ![w] = "hash"]
  /\ ui' = ui + 1
  /\ UNCHANGED << fixedVars, runVars, fsVars, table, watchers, mu, held, base, idx,
                  outcome, failed, wrote, stats, walkVars >>

\* An Unlock that does not finish its loop over the watchers.
UnlockEndEarly(f) ==
  /\ tpc[f] = "unlocking"
  /\ table' = table \ {held[f]}
  /\ watchers' = [watchers EXCEPT ![held[f]] = << >>]
  /\ mu' = 0
  /\ ui' = 0
  /\ held' = [held EXCEPT ![f] = NoPath]
  /\ tpc' = [tpc EXCEPT ![f] = "exit"]
  /\ UNCHANGED << fixedVars, runVars, fsVars, base, idx, outcome,
                  failed, wrote, stats, walkVars >>

\* The end of Unlock: both map entries are deleted and the mutex is released;
\* processFile has then returned.
UnlockEnd(f) ==
  /\ tpc[f] = "unlocking"
  /\ ui > Len(watchers[held[f]])
  /\ table' = table \ {held[f]}
  /\ watchers' = [watchers EXCEPT ![held[f]] = << >>]
  /\ mu' = 0
  /\ ui' = 0
  /\ held' = [held EXCEPT ![f] = NoPath]
  /\ tpc' = [tpc EXCEPT ![f] = "exit"]
  /\ UNCHANGED << fixedVars, runVars, fsVars, base, idx, outcome, failed, wrote,
                  stats, walkVars >>

\* ------------------------------------------------------ the extension test

\* unicode.ToLower on the letters that occur in the strings looked at.
LowerChar(c) ==
  CASE c = "J" -> "j"
    [] c = "P" -> "p"
    [] c = "G" -> "g"
    [] c = "A" -> "a"
    [] c = "A-acute" -> "a-acute"
    [] c = "N-tilde" -> "n-tilde"
    [] OTHER -> c

\* strings.ToLower
ToLower(x) == [i \in DOMAIN x |-> LowerChar(x[i])]

\* path.Ext of the source files looked at: ".jpg", ".JPG", ".txt" and the
\* empty extension of a name without a dot.
Extensions ==
  { << ".", "j", "p", "g" >>, << ".", "J", "P", "G" >>, << ".", "t", "x", "t" >>,
    << >> }

\* restrictToExtensions as restrictExtensions builds it: empty without
\* -restrict, {".jpg"} for '-restrict JPG'.
RestrictSets == { {}, { << ".", "j", "p", "g" >> } }

\* An extension test that lets a name without extension through.
SkipsUnlessNoExtension(x, restrictToExtensions) ==
  /\ Cardinality(restrictToExtensions) > 0
  /\ x # << >>
  /\ ToLower(x) \notin restrictToExtensions

\* len(restrictToExtensions) > 0 and !restrictToExtensions[ToLower(path.Ext)]
Skips(x, restrictToExtensions) ==
  /\ Cardinality(restrictToExtensions) > 0
  /\ ToLower(x) \notin restrictToExtensions

\* The file whose extension is an input when the test is looked at.
TestedFile == 1

\* Whether f's extension and the restriction set are inputs of this run;
\* otherwise they are left open and the test can go either way.
Tested(f) == arg.fn = "processFile" /\ f = TestedFile

\* The extension test rejects f.
Rejects(f) == Tested(f) => Skips(arg.ext, arg.restrict)

\* The extension test lets f through.
Accepts(f) == Tested(f) => ~Skips(arg.ext, arg.restrict)

\* ------------------------------------------------------------ processFile

\* The start of processFile: the extension test against restrictToExtensions
\* and guessFileDestination, whose result depends on the file's tags.
Classify(f) ==
  /\ tpc[f] = "start"
  /\ \/ /\ Repeats(f, "skipped")
        /\ Rejects(f)
        /\ outcome' = [outcome EXCEPT ![f] = "skipped"]
        /\ tpc' = [tpc EXCEPT ![f] = "next"]
        /\ base' = base
     \/ /\ Repeats(f, "unknown")
        /\ Accepts(f)
        /\ outcome' = [outcome EXCEPT ![f] = "unknown"]
        /\ tpc' = [tpc EXCEPT ![f] = "next"]
        /\ base' = base
     \/ \E b \in Bases :
          /\ Repeats(f, b)
          /\ Accepts(f)
          /\ InOrder(b)
          /\ base' = [base EXCEPT ![f] = b]
          /\ tpc' = [tpc EXCEPT ![f] = "stat"]
          /\ outcome' = outcome
  /\ UNCHANGED << fixedVars, runVars, fsVars, lockVars, idx, failed, wrote, stats,
                  walkVars >>

\* The head of the suffix loop: os.Stat(dstFile).
StatCandidate(f) ==
  /\ tpc[f] = "stat"
  /\ tpc' = [tpc EXCEPT ![f] = IF StatOk(Cand(f)) THEN "hash" ELSE "acquire"]
  /\ UNCHANGED << fixedVars, runVars, fsVars, lockVars, base, idx, outcome, failed,
                  wrote, stats, walkVars >>

\* fileHash(srcFile), fileHash(dstFile) and the comparison.  A read error of
\* either file, or a destination that does not exist, ends the task with the
\* error; different digests advance the loop; equal digests are a duplicate.
HashCompare(f) ==
  /\ tpc[f] = "hash"
  /\ \/ /\ MayFail \/ fileHash(dst[Cand(f)]) = HashError
        /\ faults' = Faulted(fileHash(dst[Cand(f)]) # HashError)
        /\ outcome' = [outcome EXCEPT ![f] = "hasherr"]
        /\ tpc' = [tpc EXCEPT ![f] = "next"]
        /\ idx' = idx
     \/ /\ fileHash(dst[Cand(f)]) # HashError
        /\ fileHash(content[f]) # fileHash(dst[Cand(f)])
        /\ idx[f] < MaxSuffix
        /\ idx' = [idx EXCEPT ![f] = @ + 1]
        /\ tpc' = [tpc EXCEPT ![f] = "stat"]
        /\ UNCHANGED << outcome, faults >>
     \/ /\ fileHash(content[f]) = fileHash(dst[Cand(f)])
        /\ outcome' = [outcome EXCEPT ![f] = "duplicate"]
        /\ tpc' = [tpc EXCEPT ![f] = "next"]
        /\ UNCHANGED << idx, faults >>
  /\ UNCHANGED << fixedVars, runVars, srcExists, dst, dstDirs, tmpFiles, lockVars,
                  base, failed, wrote, stats, walkVars >>

\* A processFile that starts the copy or move without 'next <- true'.
ProcessAnotherSkipped == "post"

\* Where processFile goes once the destination directory is there: to
\* 'next <- true' ("Process another file"), and only then to the transfer.
ProcessAnother == "next"

\* After the loop: verifyDirectory(dstFileDir) and, in a real run,
\* os.MkdirAll.  A MkdirAll error returns before 'next <- true'.
MakeDirectory(f) ==
  /\ tpc[f] = "mkdir"
  /\ IF verifyDirectory(DirName(held[f])) \/ DryRun
     THEN /\ outcome' = [outcome EXCEPT ![f] = "placing"]
          /\ tpc' = [tpc EXCEPT ![f] = ProcessAnother]
          /\ UNCHANGED << dstDirs, failed, faults >>
     ELSE \/ /\ dstDirs' = dstDirs \cup {DirName(held[f])}
             /\ outcome' = [outcome EXCEPT ![f] = "placing"]
             /\ tpc' = [tpc EXCEPT ![f] = ProcessAnother]
             /\ UNCHANGED << failed, faults >>
          \/ /\ MayFail
             /\ faults' = Faulted(TRUE)
             /\ outcome' = [outcome EXCEPT ![f] = "mkdirerr"]
             /\ failed' = [failed EXCEPT ![f] = TRUE]
             /\ tpc' = [tpc EXCEPT ![f] = DeferredUnlock]
             /\ dstDirs' = dstDirs
  /\ UNCHANGED << fixedVars, runVars, srcExists, dst, tmpFiles, lockVars, base, idx,
                  wrote, stats, walkVars >>

\* 'next <- true' on the unbuffered channel: completes together with the
\* dispatcher's '<-next'.
SendNext(f) ==
  /\ tpc[f] = "next"
  /\ dpc = "next"
  /\ cur = f
  /\ tpc' = [tpc EXCEPT ![f] = "post"]
  /\ dpc' = "loop"
  /\ cur' = 0
  /\ UNCHANGED << fixedVars, runVars, fsVars, lockVars, base, idx, outcome, failed,
                  wrote, stats, tasks, wg, stack, ret >>

\* The return paths that follow 'next <- true' without a claim being held.
ReturnEarly(f) ==
  /\ tpc[f] = "post"
  /\ outcome[f] \in {"skipped", "unknown", "hasherr"}
  /\ stats' = IF outcome[f] = "skipped" THEN Count(stats, "skipped", 1)
              ELSE IF outcome[f] = "unknown" THEN Count(stats, "unknown", 1)
              ELSE stats
  /\ failed' = [failed EXCEPT ![f] = outcome[f] # "skipped"]
  /\ tpc' = [tpc EXCEPT ![f] = "exit"]
  /\ UNCHANGED << fixedVars, runVars, fsVars, lockVars, base, idx, outcome, wrote,
                  walkVars >>

\* The duplicate branch: count it, then remove the source (delete-original,
\* real run), only report (dry run) or count the file as skipped.
Duplicate(f) ==
  /\ tpc[f] = "post"
  /\ outcome[f] = "duplicate"
  /\ IF cfg.deleteOriginal
     THEN IF DryRun
          THEN /\ stats' = Count(stats, "duplicated", 1)
               /\ UNCHANGED << srcExists, failed, faults >>
          ELSE \/ /\ srcExists' = [srcExists EXCEPT ![f] = FALSE]
                  /\ stats' = Count(Count(stats, "duplicated", 1), "deleted", 1)
                  /\ UNCHANGED << failed, faults >>
               \/ /\ MayFail
                  /\ faults' = Faulted(TRUE)
                  /\ stats' = Count(stats, "duplicated", 1)
                  /\ failed' = [failed EXCEPT ![f] = TRUE]
                  /\ srcExists' = srcExists
     ELSE /\ stats' = Count(Count(stats, "duplicated", 1), "skipped", 1)
          /\ UNCHANGED << srcExists, failed, faults >>
  /\ tpc' = [tpc EXCEPT ![f] = "exit"]
  /\ UNCHANGED << fixedVars, runVars, dst, dstDirs, tmpFiles, lockVars, base, idx,
                  outcome, wrote, walkVars >>

\* ---------------------------------------------------------- file transfer

\* How a copyFile call can end: the rename into place happened ("ok"); it
\* failed before ioutil.TempFile created the temporary file ("err"); or it
\* failed in io.Copy, Close or os.Rename, after the file was created ("errtmp").
CopyResults == { "ok", "err", "errtmp" }

\* A copyFile that writes to the first candidate of the destination, whatever
\* suffix dst carries.
copyFileFirstCandidate(f, p, r) ==
  /\ dst' = IF r = "ok" THEN [dst EXCEPT ![CandidatePath(DirName(p), 0)] = content[f]]
            ELSE dst
  /\ tmpFiles' = IF r = "errtmp" THEN tmpFiles \cup {f} ELSE tmpFiles

\* copyFile(src, dst) of task f ending as r.
copyFile(f, p, r) ==
  /\ dst' = IF r = "ok" THEN [dst EXCEPT ![p] = content[f]] ELSE dst
  /\ tmpFiles' = IF r = "errtmp" THEN tmpFiles \cup {f} ELSE tmpFiles

\* How a moveFile call can end: os.Rename worked ("rename"); it failed and
\* the fallback ended as copyFile did, followed by os.Remove(src), which can
\* fail too ("removeerr").
MoveResults == { "rename", "copy", "copyerr", "copyerrtmp", "removeerr" }

\* A moveFile that removes the source whether or not the fallback copy worked.
moveFileRemovesAlways(f, p, r) ==
  IF r = "rename"
  THEN /\ dst' = [dst EXCEPT ![p] = content[f]]
       /\ srcExists' = [srcExists EXCEPT ![f] = FALSE]
       /\ tmpFiles' = tmpFiles
  ELSE /\ copyFile(f, p, IF r \in {"copy", "removeerr"} THEN "ok"
                         ELSE IF r = "copyerr" THEN "err" ELSE "errtmp")
       /\ srcExists' = [srcExists EXCEPT ![f] = (r = "removeerr")]

\* moveFile(src, dst) of task f ending as r.
moveFile(f, p, r) ==
  IF r = "rename"
  THEN /\ dst' = [dst EXCEPT ![p] = content[f]]
       /\ srcExists' = [srcExists EXCEPT ![f] = FALSE]
       /\ tmpFiles' = tmpFiles
  ELSE /\ copyFile(f, p, IF r \in {"copy", "removeerr"} THEN "ok"
                         ELSE IF r = "copyerr" THEN "err" ELSE "errtmp")
       /\ srcExists' = [srcExists EXCEPT ![f] = (r # "copy")]

\* The end of processFile, after 'next <- true': move or copy the file to
\* dstFile, or only report it in a dry run.
Transfer(f) ==
  /\ tpc[f] = "post"
  /\ outcome[f] = "placing"
  /\ IF DryRun
     THEN UNCHANGED << srcExists, dst, tmpFiles, faults, failed, stats, wrote >>
     ELSE IF cfg.deleteOriginal
          THEN \E r \in MoveResults :
                 /\ r = "rename" \/ MayFail
                 /\ faults' = Faulted(r # "rename")
                 /\ moveFile(f, Cand(f), r)
                 /\ failed' = [failed EXCEPT ![f] = r \notin {"rename", "copy"}]
                 /\ stats' = IF r \in {"rename", "copy"}
                             THEN Count(stats, "moved", 1) ELSE stats
                 /\ wrote' = IF r \in {"rename", "copy", "removeerr"}
                             THEN [wrote EXCEPT ![f] = Cand(f)] ELSE wrote
          ELSE \E r \in CopyResults :
                 /\ r = "ok" \/ MayFail
                 /\ faults' = Faulted(r # "ok")
                 /\ copyFile(f, Cand(f), r)
                 /\ srcExists' = srcExists
                 /\ failed' = [failed EXCEPT ![f] = r # "ok"]
                 /\ stats' = IF r = "ok" THEN Count(stats, "copied", 1) ELSE stats
                 /\ wrote' = IF r = "ok" THEN [wrote EXCEPT ![f] = Cand(f)]
                             ELSE wrote
  /\ tpc' = [tpc EXCEPT ![f] = DeferredUnlock]
  /\ UNCHANGED << fixedVars, runVars, dstDirs, lockVars, base,
                  idx, outcome, walkVars >>

\* ------------------------------------------------- the task's goroutine

\* The token returned only when processFile returned nil.
TokenReturnedOnSuccess(f) == IF failed[f] THEN tasks ELSE tasks + 1

\* The tasks channel after the deferred 'tasks <- token' of task f.
TokenReturned(f) == tasks + 1

\* After processFile returned: count an error, then the deferred wg.Done().
TaskDone(f) ==
  /\ tpc[f] = "exit"
  /\ stats' = IF failed[f] THEN Count(stats, "errored", 1) ELSE stats
  /\ wg' = [wg EXCEPT ![DirOf(f)] = @ - 1]
  /\ tpc' = [tpc EXCEPT ![f] = "token"]
  /\ log' = [log EXCEPT ![run].reports[f] = Classification(f)]
  /\ UNCHANGED << fixedVars, run, tmpData, fsVars, lockVars, base, idx, outcome, failed,
                  wrote, tasks, stack, dpc, cur, ret >>

\* The deferred 'tasks <- token': the goroutine ends, and its locals with it.
ReturnToken(f) ==
  /\ tpc[f] = "token"
  /\ tasks' = TokenReturned(f)
  /\ tpc' = [tpc EXCEPT ![f] = "done"]
  /\ base' = [base EXCEPT ![f] = "none"]
  /\ idx' = [idx EXCEPT ![f] = 0]
  /\ outcome' = [outcome EXCEPT ![f] = "none"]
  /\ UNCHANGED << fixedVars, runVars, fsVars, lockVars, failed, wrote, stats, wg,
                  stack, dpc, cur, ret >>

\* ------------------------------------------------------- processDirectory

\* The frame of the processDirectory call that is running.
Top == stack[Len(stack)]

\* The entry the loop over 'files' visits next.
Entry == Listing(Top.dir)[Top.pos + 1]

\* The stack with the running call's loop advanced by one entry.
Advanced == [stack EXCEPT ![Len(stack)].pos = @ + 1]

\* strings.HasPrefix
HasPrefix(x, prefix) ==
  /\ Len(x) >= Len(prefix)
  /\ SubSeq(x, 1, Len(prefix)) = prefix

\* The name of an entry without a leading dot.
PlainName(e) ==
  IF e.kind = "dir" THEN << "s", "u", "b" >>
  ELSE << "f", CASE e.file = 1 -> "1" [] e.file = 2 -> "2" [] OTHER -> "3" >>

\* file.Name(): when the walk is looked at with hidden entries, the entries
\* the input names start with a dot; otherwise the tree holds none.
Name(e) ==
  IF arg.fn = "processDirectory" /\ PlainName(e) \in arg.hidden
  THEN << "." >> \o PlainName(e)
  ELSE PlainName(e)

\* *flagAllowHidden (false unless -allow-hidden is given)
AllowHidden == arg.fn = "processDirectory" /\ arg.allowHidden

\* A test for hidden entries that looks at files only.
HiddenFilesOnly(e) ==
  /\ e.kind = "file"
  /\ HasPrefix(Name(e), << "." >>)
  /\ ~AllowHidden

\* strings.HasPrefix(baseName, ".") && !*flagAllowHidden
Hidden(e) == HasPrefix(Name(e), << "." >>) /\ ~AllowHidden

\* A dispatch that does not wait for a token.
TokenReadyAlways == TRUE

\* '<-tasks' can receive: the channel holds a token.
TokenReady == tasks > 0

\* A return that does not wait for the call's tasks.
WaitDoneAlways(d) == TRUE

\* wg.Wait() can return: the call's counter is zero.
WaitDone(d) == wg[d] = 0

\* A processDirectory whose error ends the whole walk.
OpenDirectoryAborts ==
  /\ dpc = "open"
  /\ \/ /\ dpc' = "loop"
        /\ UNCHANGED << stack, ret, stats, faults >>
     \/ /\ MayFail
        /\ faults' = Faulted(TRUE)
        /\ ret' = [ret EXCEPT ![Top.dir] = "err"]
        /\ stack' = SubSeq(stack, 1, Len(stack) - 1)
        /\ dpc' = "done"
        /\ stats' = IF Len(stack) = 1 THEN stats ELSE Count(stats, "errored", 1)
  /\ UNCHANGED << fixedVars, runVars, srcExists, dst, dstDirs,
                  tmpFiles, lockVars, taskVars, tasks, wg, cur >>

\* os.Open(srcDir) and dir.Readdir(-1).  An error returns at once: the caller
\* counts an errored task; main discards the root call's error.
OpenDirectory ==
  /\ dpc = "open"
  /\ \/ /\ dpc' = "loop"
        /\ UNCHANGED << stack, ret, stats, faults >>
     \/ /\ MayFail
        /\ faults' = Faulted(TRUE)
        /\ ret' = [ret EXCEPT ![Top.dir] = "err"]
        /\ stack' = SubSeq(stack, 1, Len(stack) - 1)
        /\ dpc' = IF Len(stack) = 1 THEN "done" ELSE "loop"
        /\ stats' = IF Len(stack) = 1 THEN stats ELSE Count(stats, "errored", 1)
  /\ UNCHANGED << fixedVars, runVars, srcExists, dst, dstDirs, tmpFiles, lockVars,
                  taskVars, tasks, wg, cur >>

\* A dispatcher that goes on with the loop without receiving from 'next'.
AwaitNextSkipped == "loop"

\* Where the dispatcher is after 'go func(next chan bool)': at '<-next'.
AwaitNext == "next"

\* A file entry: receive a token, wg.Add(1), start the goroutine and block on
\* '<-next'.
Dispatch ==
  /\ dpc = "loop"
  /\ Top.pos < Len(Listing(Top.dir))
  /\ Entry.kind = "file"
  /\ ~Hidden(Entry)
  /\ TokenReady
  /\ tasks' = tasks - 1
  /\ wg' = [wg EXCEPT ![Top.dir] = @ + 1]
  /\ tpc' = [tpc EXCEPT ![Entry.file] = "start"]
  /\ cur' = Entry.file
  /\ dpc' = AwaitNext
  /\ stack' = Advanced
  /\ UNCHANGED << fixedVars, runVars, fsVars, lockVars, base, idx, outcome, failed,
                  wrote, stats, ret >>

\* A directory entry: the recursive, synchronous processDirectory call.
Recurse ==
  /\ dpc = "loop"
  /\ Top.pos < Len(Listing(Top.dir))
  /\ Entry.kind = "dir"
  /\ ~Hidden(Entry)
  /\ stack' = Append(Advanced, [dir |-> Entry.dir, pos |-> 0])
  /\ dpc' = "open"
  /\ UNCHANGED << fixedVars, runVars, fsVars, lockVars, taskVars, stats, tasks, wg,
                  cur, ret >>

\* A hidden entry: 'continue'.
SkipHidden ==
  /\ dpc = "loop"
  /\ Top.pos < Len(Listing(Top.dir))
  /\ Hidden(Entry)
  /\ stack' = Advanced
  /\ UNCHANGED << fixedVars, runVars, fsVars, lockVars, taskVars, stats, tasks, wg,
                  dpc, cur, ret >>

\* After the loop: wg.Wait() and 'return nil'.
WaitReturn ==
  /\ dpc = "loop"
  /\ Top.pos = Len(Listing(Top.dir))
  /\ WaitDone(Top.dir)
  /\ ret' = [ret EXCEPT ![Top.dir] = "nil"]
  /\ stack' = SubSeq(stack, 1, Len(stack) - 1)
  /\ dpc' = IF Len(stack) = 1 THEN "done" ELSE "loop"
  /\ UNCHANGED << fixedVars, runVars, fsVars, lockVars, taskVars, stats, tasks, wg, cur >>

\* --------------------------------------------------------- specification

Dispatcher == OpenDirectory \/ Dispatch \/ Recurse \/ WaitReturn

Task(f) ==
  \/ Classify(f)
  \/ StatCandidate(f)
  \/ AcquireLock(f)
  \/ WatchUnlock(f)
  \/ AwaitUnlock(f)
  \/ HashCompare(f)
  \/ MakeDirectory(f)
  \/ SendNext(f)
  \/ ReturnEarly(f)
  \/ Duplicate(f)
  \/ Transfer(f)
  \/ UnlockBegin(f)
  \/ UnlockSignal(f)
  \/ UnlockEnd(f)
  \/ TaskDone(f)
  \/ ReturnToken(f)

Next == Dispatcher \/ \E f \in Files : Task(f)

Spec == Init /\ [][Next]_vars

\* Go's scheduler runs every goroutine that can take a step.
FairSpec == Spec /\ WF_vars(Dispatcher) /\ \A f \in Files : WF_vars(Task(f))

\* ------------------------------------------------------ second invocation

\* The flags of the second invocation.  After a dry run: the real run it
\* was the preview of.  After a real run: the same command again, or a dry
\* run with -delete-original, the preview of a clean-up of the source.
SecondFlags ==
  IF cfg.dryRun
  THEN { [dryRun |-> FALSE, deleteOriginal |-> cfg.deleteOriginal] }
  ELSE { [dryRun |-> FALSE, deleteOriginal |-> cfg.deleteOriginal],
         [dryRun |-> TRUE, deleteOriginal |-> TRUE] }

\* main, started once more on the same source and destination directories
\* after the first invocation has exited, with -max-procs n: fresh counters,
\* a full tasks channel, an empty fileLocker.  Modelled for first
\* invocations that left every source file in place.
Restart(n) ==
  /\ run = 1
  /\ dpc = "done"
  /\ \A f \in Files : tpc[f] \in {"idle", "done"} /\ srcExists[f]
  /\ run' = 2
  /\ \E c \in SecondFlags :
       /\ cfg' = [dryRun |-> c.dryRun, deleteOriginal |-> c.deleteOriginal,
                 maxProcs |-> n]
       /\ log' = [log EXCEPT ![2].dryRun = c.dryRun, ![2].maxProcs = n]
  /\ table' = {}
  /\ watchers' = [p \in Paths |-> << >>]
  /\ mu' = 0
  /\ ui' = 0
  /\ held' = [f \in Files |-> NoPath]
  /\ tpc' = [f \in Files |-> "idle"]
  /\ base' = [f \in Files |-> "none"]
  /\ idx' = [f \in Files |-> 0]
  /\ outcome' = [f \in Files |-> "none"]
  /\ failed' = [f \in Files |-> FALSE]
  /\ wrote' = [f \in Files |-> NoPath]
  /\ stats' = [k \in StatKinds |-> 0]
  /\ tasks' = n
  /\ wg' = [d \in Dirs |-> 0]
  /\ stack' = << [dir |-> "root", pos |-> 0] >>
  /\ dpc' = "open"
  /\ cur' = 0
  /\ ret' = [d \in Dirs |-> "none"]
  /\ UNCHANGED << content, auxVars, fsVars, tmpData >>

\* The first of two invocations of the same command: a real run in copy mode.
RerunInit == Init /\ ~cfg.dryRun /\ ~cfg.deleteOriginal

\* The same command twice: the second invocation has the first's -max-procs.
RerunNext == Next \/ Restart(cfg.maxProcs)

RerunSpec == RerunInit /\ [][RerunNext]_vars

\* The first of two invocations when the second will run one task at a
\* time: a dry run with any -max-procs, or a real run with -max-procs 1.
PreviewInit == Init /\ (cfg.dryRun \/ cfg.maxProcs = 1)

\* A second invocation with -max-procs 1: its tasks run one after the other,
\* in the order of the walk.
PreviewNext == Next \/ Restart(1)

PreviewSpec == PreviewInit /\ [][PreviewNext]_vars

\* ----------------------------------------------- copyFile, step by step

\* The tasks that are inside copyFile when the steps of the call are looked
\* at: the first -max-procs files of the walk, file 2 being the one of "sub".
CopyTasks == IF cfg.maxProcs = 1 THEN {1} ELSE {1, 2}

\* A file at the final name that holds only the first chunks of content c.
Partial(c) == 0 - c

\* What os.Rename(output.Name(), dst) makes visible at dst: the temporary
\* file as it is, complete only if io.Copy wrote every chunk.
Renamed(f) ==
  IF tmpData[f] = NumChunks THEN content[f] ELSE Partial(content[f])

\* A copyFile that goes on to Close and Rename when io.Copy has failed.
IoCopyErrorIgnored == "copy.close"

\* Where copyFile goes when io.Copy returns an error: output.Close() and
\* 'return err'.
IoCopyError == "copy.end"

\* Two tasks hold the claims of two different paths and each is about to
\* call copyFile(srcFile, dstFile) in a real run in copy mode; the
\* dispatcher has started them and waits for a token.  What the claimed
\* paths held before is open: nothing, or a file left by an earlier task.
CopyInit ==
  /\ cfg \in [dryRun : {FALSE}, deleteOriginal : {FALSE}, maxProcs : 1..MaxProcs]
  /\ content \in { c \in [Files -> Contents] : Canonical(c) }
  /\ srcExists = [f \in Files |-> TRUE]
  /\ base = [f \in Files |-> IF f = 1 THEN "a" ELSE IF f = 2 THEN "b" ELSE "none"]
  /\ idx = [f \in Files |-> 0]
  /\ dst \in { d \in [Paths -> {None} \cup Contents] :
                \A q \in Paths : d[q] # None => \E f \in CopyTasks : q = Cand(f) }
  /\ dstDirs = { base[f] : f \in CopyTasks }
  /\ table = { Cand(f) : f \in CopyTasks }
  /\ watchers = [q \in Paths |-> << >>]
  /\ mu = 0
  /\ ui = 0
  /\ held = [f \in Files |-> IF f \in CopyTasks THEN Cand(f) ELSE NoPath]
  /\ tpc = [f \in Files |-> IF f \in CopyTasks THEN "copy.open" ELSE "idle"]
  /\ outcome = [f \in Files |-> IF f \in CopyTasks THEN "placing" ELSE "none"]
  /\ failed = [f \in Files |-> FALSE]
  /\ wrote = [f \in Files |-> NoPath]
  /\ stats = [k \in StatKinds |-> 0]
  /\ tasks = cfg.maxProcs - Cardinality(CopyTasks)
  /\ wg = [d \in Dirs |-> Cardinality({ f \in CopyTasks : DirOf(f) = d })]
  /\ stack = IF cfg.maxProcs = 1 THEN << [dir |-> "root", pos |-> 1] >>
             ELSE << [dir |-> "root", pos |-> 2], [dir |-> "sub", pos |-> 1] >>
  /\ dpc = "loop"
  /\ cur = 0
  /\ ret = [d \in Dirs |-> "none"]
  /\ tmpFiles = {}
  /\ faults = 0
  /\ run = 1
  /\ log = [r \in Runs |-> [dryRun |-> FALSE, maxProcs |-> cfg.maxProcs,
                            reports |-> [f \in Files |-> NoReport]]]
  /\ tmpData = [f \in Files |-> 0]
  /\ AuxInit

\* What no step of copyFile touches.
copyFrame ==
  << fixedVars, srcExists, dstDirs, lockVars, base, idx, outcome, wrote,
     stats, walkVars, run, log >>

\* input, err := os.Open(src)
CopyOpen(f) ==
  /\ tpc[f] = "copy.open"
  /\ \/ /\ tpc' = [tpc EXCEPT ![f] = "copy.tempfile"]
        /\ UNCHANGED << failed, faults >>
     \/ /\ MayFail
        /\ faults' = Faulted(TRUE)
        /\ failed' = [failed EXCEPT ![f] = TRUE]
        /\ tpc' = [tpc EXCEPT ![f] = "copy.end"]
  /\ UNCHANGED << copyFrame, dst, tmpFiles, tmpData >>

\* output, err := ioutil.TempFile(path.Dir(dst), ".tmp"): a new, empty file
\* next to dst.
CopyTempFile(f) ==
  /\ tpc[f] = "copy.tempfile"
  /\ \/ /\ tmpFiles' = tmpFiles \cup {f}
        /\ tpc' = [tpc EXCEPT ![f] = "copy.iocopy"]
        /\ UNCHANGED << failed, faults >>
     \/ /\ MayFail
        /\ faults' = Faulted(TRUE)
        /\ failed' = [failed EXCEPT ![f] = TRUE]
        /\ tpc' = [tpc EXCEPT ![f] = "copy.end"]
        /\ tmpFiles' = tmpFiles
  /\ UNCHANGED << copyFrame, dst, tmpData >>

\* io.Copy(output, input): writes the next chunk to the temporary file,
\* returns nil after the last one, or returns an error part-way.
CopyWrite(f) ==
  /\ tpc[f] = "copy.iocopy"
  /\ \/ /\ tmpData[f] < NumChunks
        /\ tmpData' = [tmpData EXCEPT ![f] = @ + 1]
        /\ UNCHANGED << tpc, failed, faults >>
     \/ /\ tmpData[f] = NumChunks
        /\ tpc' = [tpc EXCEPT ![f] = "copy.close"]
        /\ UNCHANGED << tmpData, failed, faults >>
     \/ /\ tmpData[f] < NumChunks
        /\ MayFail
        /\ faults' = Faulted(TRUE)
        /\ failed' = [failed EXCEPT ![f] = TRUE]
        /\ tpc' = [tpc EXCEPT ![f] = IoCopyError]
        /\ tmpData' = tmpData
  /\ UNCHANGED << copyFrame, dst, tmpFiles >>

\* output.Close()
CopyClose(f) ==
  /\ tpc[f] = "copy.close"
  /\ \/ /\ tpc' = [tpc EXCEPT ![f] = "copy.rename"]
        /\ UNCHANGED << failed, faults >>
     \/ /\ MayFail
        /\ faults' = Faulted(TRUE)
        /\ failed' = [failed EXCEPT ![f] = TRUE]
        /\ tpc' = [tpc EXCEPT ![f] = "copy.end"]
  /\ UNCHANGED << copyFrame, dst, tmpFiles, tmpData >>

\* return os.Rename(output.Name(), dst): in one step the temporary file
\* takes the final name, replacing what was there.
CopyRename(f) ==
  /\ tpc[f] = "copy.rename"
  /\ \/ /\ dst' = [dst EXCEPT ![Cand(f)] = Renamed(f)]
        /\ tmpFiles' = tmpFiles \ {f}
        /\ UNCHANGED << failed, faults >>
     \/ /\ MayFail
        /\ faults' = Faulted(TRUE)
        /\ failed' = [failed EXCEPT ![f] = TRUE]
        /\ UNCHANGED << dst, tmpFiles >>
  /\ tpc' = [tpc EXCEPT ![f] = "copy.end"]
  /\ UNCHANGED << copyFrame, tmpData >>

CopyNext ==
  \E f \in Files :
    \/ CopyOpen(f)
    \/ CopyTempFile(f)
    \/ CopyWrite(f)
    \/ CopyClose(f)
    \/ CopyRename(f)

CopySpec == CopyInit /\ [][CopyNext]_vars

\* --------------------------------------- processFile with a known extension

\* A real run in copy mode in which the extension of one file and the
\* restriction set are given; the other files' extensions are left open as
\* before.  Without a restriction the extension makes no difference, and one
\* extension stands for all.
FilterInit ==
  /\ cfg \in [dryRun : {FALSE}, deleteOriginal : {FALSE}, maxProcs : 1..MaxProcs]
  /\ content \in { c \in [Files -> Contents] : Canonical(c) }
  /\ Started
  /\ PhotoIdle
  /\ smu = 0
  /\ call = [f \in Files |-> NoCall]
  /\ applied = [k \in StatKinds |-> 0]
  /\ arg \in { a \in [fn : {"processFile"}, ext : Extensions,
                       restrict : RestrictSets] :
                 a.restrict = {} => a.ext = << ".", "t", "x", "t" >> }
  /\ res = NoValue

FilterSpec == FilterInit /\ [][Next]_vars

\* ------------------------------------------------ a tree with hidden entries

\* The entries that can be hidden: the directory and the file after it.
HiddenSets ==
  { { << "s", "u", "b" >> }, { << "f", "3" >> },
    { << "s", "u", "b" >>, << "f", "3" >> } }

\* A real run in copy mode over a tree in which the named entries start with
\* a dot, without -allow-hidden and, for the tree with both, with it.
HiddenInit ==
  /\ cfg \in [dryRun : {FALSE}, deleteOriginal : {FALSE}, maxProcs : 1..MaxProcs]
  /\ content \in { c \in [Files -> Contents] : Canonical(c) }
  /\ Started
  /\ PhotoIdle
  /\ smu = 0
  /\ call = [f \in Files |-> NoCall]
  /\ applied = [k \in StatKinds |-> 0]
  /\ arg \in { a \in [fn : {"processDirectory"}, hidden : HiddenSets,
                       allowHidden : BOOLEAN] :
                 a.allowHidden => Cardinality(a.hidden) = 2 }
  /\ res = NoValue

HiddenNext == Next \/ SkipHidden

HiddenSpec == HiddenInit /\ [][HiddenNext]_vars

\* ------------------------------------ getExifCreateDate, guessFileDestination

\* The tags a file's EXIF data can hold here, and the values they can have.
\* A map is a function whose domain is the set of keys that are present.
DateValues ==
  { "", "n/a", "0000:00:00 00:00:00", "2015:06:07 08:09:10", "2016:01:02 03:04:05" }

TagValues(k) ==
  CASE k = "Track" -> { "7" }
    [] k = "Make" -> { " ", "Canon" }
    [] k = "Model" -> { "EOS" }
    [] OTHER -> DateValues

TagNames == { "Track", "Make", "Model", "DateTimeOriginal", "CreateDate" }

TagMaps ==
  UNION { { t \in [S -> UNION { TagValues(k) : k \in S }] :
              \A k \in S : t[k] \in TagValues(k) } : S \in SUBSET TagNames }

\* _, ok := tags[k]
Has(tags, k) == k \in DOMAIN tags

\* tags[k]: the empty string for a key that is absent (or a nil map).
Lookup(tags, k) == IF Has(tags, k) THEN tags[k] ELSE ""

\* strings.TrimSpace on the values above.
TrimSpace(v) == IF v = " " THEN "" ELSE v

\* pick(values...): the first value that is not empty once trimmed, trimmed.
RECURSIVE pick(_)
pick(values) ==
  IF values = << >> THEN ""
  ELSE IF TrimSpace(Head(values)) # "" THEN TrimSpace(Head(values))
  ELSE pick(Tail(values))

\* reDateTime.FindAllStringSubmatch(taken, -1), all[0][1..6] through toInt:
\* the six numbers of the first match, << >> when nothing matches.
FindDateTime(taken) ==
  CASE taken = "0000:00:00 00:00:00" -> << 0, 0, 0, 0, 0, 0 >>
    [] taken = "2015:06:07 08:09:10" -> << 2015, 6, 7, 8, 9, 10 >>
    [] taken = "2016:01:02 03:04:05" -> << 2016, 1, 2, 3, 4, 5 >>
    [] OTHER -> << >>

\* time.Time.IsZero: January 1, year 1, 00:00:00 UTC.
IsZero(t) == t = << 1, 1, 1, 0, 0, 0 >>

\* time.Time{}
ZeroTime == << 1, 1, 1, 0, 0, 0 >>

dateTimeFields ==
  << "DateAndTimeOriginal", "DateTimeOriginal", "Date/TimeOriginal", "CreateDate",
     "MediaCreateDate", "TrackCreateDate", "FileModificationDateTime",
     "FileAccessDateTime" >>

\* getExifCreateDate(tags), the loop from field i on.
RECURSIVE getExifCreateDate(_, _)
getExifCreateDate(tags, i) ==
  IF i > Len(dateTimeFields)
  THEN [t |-> ZeroTime, err |-> "MissingCreateTime"]
  ELSE LET field == dateTimeFields[i]
           all == FindDateTime(Lookup(tags, field))
       IN IF ~Has(tags, field) THEN getExifCreateDate(tags, i + 1)
          ELSE IF Len(all) < 6 THEN [t |-> ZeroTime, err |-> "MissingCreateTime"]
          ELSE IF all[1] = 0 THEN getExifCreateDate(tags, i + 1)
          ELSE IF IsZero(all) THEN getExifCreateDate(tags, i + 1)
          ELSE [t |-> all, err |-> "nil"]

\* getExifData(srcFile): the tags, or the nil map and an error when neither
\* exif.Decode nor exiftool could read the file.
getExifData(a) ==
  IF a.exif THEN [tags |-> a.tags, err |-> "nil"]
  ELSE [tags |-> << >>, err |-> "Unknown"]

\* guessFileDestination(srcFile, dstDir) of the variant with the lock
\* manager: the path, kept as the parts that tell the layouts apart, and the
\* error.
guessFileDestination(a) ==
  LET data == getExifData(a)
      tags == data.tags
      guessedVendor ==
        pick(<< Lookup(tags, "Manufacturer"), Lookup(tags, "Make"),
                Lookup(tags, "VendorID"), Lookup(tags, "HandlerVendorID"),
                Lookup(tags, "CompressorName"), Lookup(tags, "HandlerType") >>)
      timeTaken == getExifCreateDate(tags, 1)
  IN IF data.err # "nil" /\ ~a.acceptAll THEN [path |-> << >>, err |-> data.err]
     ELSE IF Has(tags, "Track")
     THEN [path |-> << "music", Lookup(tags, "Track") >>, err |-> "nil"]
     ELSE IF guessedVendor # "" /\ timeTaken.err = "nil"
     THEN [path |-> << guessedVendor, timeTaken.t >>, err |-> "nil"]
     ELSE [path |-> << "Other" >>, err |-> "nil"]

\* getExifCreateDate of main.go: the first candidate field that is present
\* decides; a value that does not match makes all[0] panic.
RECURSIVE FirstTaken(_, _)
FirstTaken(tags, i) ==
  IF i > 6 THEN ""
  ELSE IF Has(tags, dateTimeFields[i]) THEN tags[dateTimeFields[i]]
  ELSE FirstTaken(tags, i + 1)

getExifCreateDateMain(tags) ==
  LET taken == FirstTaken(tags, 1)
  IN IF taken = "" THEN [t |-> ZeroTime, err |-> "MissingCreateTime"]
     ELSE IF FindDateTime(taken) = << >> THEN [t |-> ZeroTime, err |-> "panic"]
     ELSE [t |-> FindDateTime(taken), err |-> "nil"]

\* guessFileDestination of main.go, for a source file that can be read.
guessFileDestinationMain(a) ==
  LET data == getExifData(a)
      tags == data.tags
      cameraModel == pick(<< Lookup(tags, "CameraModelName"), Lookup(tags, "Model") >>)
      otherTag == pick(<< Lookup(tags, "VendorID"), Lookup(tags, "SoftwareVersion") >>)
      timeTaken == getExifCreateDateMain(tags)
  IN IF data.err # "nil" /\ ~a.acceptAll THEN [path |-> << >>, err |-> data.err]
     ELSE IF Has(tags, "Track")
     THEN [path |-> << "music", Lookup(tags, "Track") >>, err |-> "nil"]
     ELSE IF cameraModel # ""
     THEN IF timeTaken.err # "nil" THEN [path |-> << >>, err |-> timeTaken.err]
          ELSE [path |-> << cameraModel, timeTaken.t >>, err |-> "nil"]
     ELSE IF Lookup(tags, "CompressorName") = ".GoPro AVC encoder"
     THEN IF timeTaken.err # "nil" THEN [path |-> << >>, err |-> timeTaken.err]
          ELSE [path |-> << "GoPro", timeTaken.t >>, err |-> "nil"]
     ELSE IF otherTag # ""
     THEN IF timeTaken.err # "nil" THEN [path |-> << >>, err |-> timeTaken.err]
          ELSE [path |-> << otherTag, timeTaken.t >>, err |-> "nil"]
     ELSE [path |-> << "Other" >>, err |-> "nil"]

\* No result yet.
Pending == [err |-> "pending"]

\* The functions applied to one file: its tags, whether its EXIF data could
\* be read at all, and -all.
TagInit ==
  /\ cfg = [dryRun |-> FALSE, deleteOriginal |-> FALSE, maxProcs |-> MaxProcs]
  /\ content = [f \in Files |-> 1]
  /\ Started
  /\ PhotoIdle
  /\ smu = 0
  /\ call = [f \in Files |-> NoCall]
  /\ applied = [k \in StatKinds |-> 0]
  /\ arg \in { a \in [fn : {"guessFileDestination"}, tags : TagMaps,
                       exif : BOOLEAN, acceptAll : BOOLEAN] :
                 ~a.exif => a.tags = << >> }
  /\ res = [date |-> Pending, dest |-> Pending, destMain |-> Pending]

tagFrame ==
  << cfg, content, statVars, photoVars, arg, fsVars, lockVars, taskVars, walkVars, runVars,
     stats >>

GetExifCreateDate ==
  /\ res.date = Pending
  /\ arg.exif
  /\ res' = [res EXCEPT !.date = getExifCreateDate(arg.tags, 1)]
  /\ UNCHANGED tagFrame

GuessFileDestination ==
  /\ res.dest = Pending
  /\ res' = [res EXCEPT !.dest = guessFileDestination(arg)]
  /\ UNCHANGED tagFrame

GuessFileDestinationMain ==
  /\ res.destMain = Pending
  /\ res' = [res EXCEPT !.destMain = guessFileDestinationMain(arg)]
  /\ UNCHANGED tagFrame

TagNext == GetExifCreateDate \/ GuessFileDestination \/ GuessFileDestinationMain

TagSpec == TagInit /\ [][TagNext]_vars

\* ------------------------------------------- processFile of main.go (-o)

\* The counters of main.go: those above and statOverwrittenFiles.
StatKindsMain == StatKinds \cup { "overwritten" }

\* main.go's run: no lock manager and no 'next' handshake.  The resolved
\* path of a file is Cand(f) with suffix 0; it carries the first eight hex
\* digits of the file's SHA-1, so files of different content share a path
\* when their tags agree and these digits coincide.  The destination may
\* hold files from before the run.
OverInit ==
  /\ cfg \in [dryRun : BOOLEAN, deleteOriginal : BOOLEAN, maxProcs : 1..MaxProcs,
              overwrite : BOOLEAN]
  /\ content \in { c \in [Files -> Contents] : Canonical(c) }
  /\ srcExists = [f \in Files |-> TRUE]
  /\ dst \in { d \in [Paths -> {None} \cup Contents] :
                 \A q \in Paths : q[2] # 0 => d[q] = None }
  /\ dstDirs = { DirName(q) : q \in { r \in Paths : dst[r] # None } }
  /\ table = {}
  /\ watchers = [q \in Paths |-> << >>]
  /\ mu = 0
  /\ ui = 0
  /\ held = [f \in Files |-> NoPath]
  /\ tpc = [f \in Files |-> "idle"]
  /\ base = [f \in Files |-> "none"]
  /\ idx = [f \in Files |-> 0]
  /\ outcome = [f \in Files |-> "none"]
  /\ failed = [f \in Files |-> FALSE]
  /\ wrote = [f \in Files |-> NoPath]
  /\ stats = [k \in StatKindsMain |-> 0]
  /\ tasks = cfg.maxProcs
  /\ wg = [d \in Dirs |-> 0]
  /\ stack = << [dir |-> "root", pos |-> 0] >>
  /\ dpc = "loop"
  /\ cur = 0
  /\ ret = [d \in Dirs |-> "none"]
  /\ tmpFiles = {}
  /\ faults = 0
  /\ run = 1
  /\ log = [r \in Runs |-> [dryRun |-> cfg.dryRun, maxProcs |-> cfg.maxProcs,
                            reports |-> [f \in Files |-> NoReport]]]
  /\ tmpData = [f \in Files |-> 0]
  /\ AuxInit

\* What no step of main.go's processFile touches.
overFrame ==
  << cfg, content, auxVars, lockVars, idx, wg, stack, dpc, cur, ret, runVars >>

\* processDirectory of main.go reaches file f: every earlier entry has been
\* dispatched, the call for a subdirectory has returned (its wg.Wait() is
\* over), and '<-tasks' yields a token.  guessFileDestination resolves the
\* path.
OverDispatch(f) ==
  /\ tpc[f] = "idle"
  /\ \A g \in Files : g < f => tpc[g] # "idle"
  /\ \A g \in Files : (g < f /\ DirOf(g) # DirOf(f) /\ DirOf(g) # "root")
                         => tpc[g] = "done"
  /\ TokenReady
  /\ tasks' = tasks - 1
  /\ tpc' = [tpc EXCEPT ![f] = "o.stat"]
  /\ \E b \in Bases : base' = [base EXCEPT ![f] = b]
  /\ UNCHANGED << overFrame, fsVars, outcome, failed, wrote, stats >>

\* _, err = os.Stat(dstFile)
OverStat(f) ==
  /\ tpc[f] = "o.stat"
  /\ tpc' = [tpc EXCEPT ![f] = IF StatOk(Cand(f)) THEN "o.hash" ELSE "o.mkdir"]
  /\ UNCHANGED << overFrame, fsVars, base, outcome, failed, wrote, stats, tasks >>

\* Destination already exists: fileHash of both files and the comparison.
OverHash(f) ==
  /\ tpc[f] = "o.hash"
  /\ \/ /\ MayFail \/ fileHash(dst[Cand(f)]) = HashError
        /\ faults' = Faulted(fileHash(dst[Cand(f)]) # HashError)
        /\ failed' = [failed EXCEPT ![f] = TRUE]
        /\ tpc' = [tpc EXCEPT ![f] = "o.end"]
     \/ /\ fileHash(dst[Cand(f)]) # HashError
        /\ tpc' = [tpc EXCEPT ![f] =
                     IF fileHash(content[f]) = fileHash(dst[Cand(f)]) THEN "o.dup"
                     ELSE IF ~cfg.overwrite THEN "o.conflict"
                     ELSE "o.bogus"]
        /\ UNCHANGED << failed, faults >>
  /\ UNCHANGED << overFrame, srcExists, dst, dstDirs, tmpFiles, base, outcome, wrote,
                  stats, tasks >>

\* Equal hashes: count the duplicate; with -delete-original remove the
\* source (the error of os.Remove is dropped) and count it as deleted, or
\* only report in a dry run; otherwise count it as skipped.
OverDuplicate(f) ==
  /\ tpc[f] = "o.dup"
  /\ IF cfg.deleteOriginal
     THEN IF DryRun
          THEN /\ stats' = Count(stats, "duplicated", 1)
               /\ UNCHANGED << srcExists, faults >>
          ELSE /\ stats' = Count(Count(stats, "duplicated", 1), "deleted", 1)
               /\ \/ /\ srcExists' = [srcExists EXCEPT ![f] = FALSE]
                     /\ faults' = faults
                  \/ /\ MayFail
                     /\ faults' = Faulted(TRUE)
                     /\ srcExists' = srcExists
     ELSE /\ stats' = Count(Count(stats, "duplicated", 1), "skipped", 1)
          /\ UNCHANGED << srcExists, faults >>
  /\ outcome' = [outcome EXCEPT ![f] = "duplicate"]
  /\ tpc' = [tpc EXCEPT ![f] = "o.end"]
  /\ UNCHANGED << overFrame, dst, dstDirs, tmpFiles, base, failed, wrote, tasks >>

\* Different hashes without -o: count the file as skipped and return the
\* "already exists" error.
OverConflict(f) ==
  /\ tpc[f] = "o.conflict"
  /\ stats' = Count(stats, "skipped", 1)
  /\ failed' = [failed EXCEPT ![f] = TRUE]
  /\ outcome' = [outcome EXCEPT ![f] = "conflict"]
  /\ tpc' = [tpc EXCEPT ![f] = "o.end"]
  /\ UNCHANGED << overFrame, fsVars, base, wrote, tasks >>

\* Different hashes with -o: os.Remove(dstFile), whose error is dropped, and
\* the two counters; a dry run only reports.
OverBogus(f) ==
  /\ tpc[f] = "o.bogus"
  /\ IF DryRun
     THEN UNCHANGED << dst, stats, faults >>
     ELSE /\ stats' = Count(Count(stats, "deleted", 1), "overwritten", 1)
          /\ \/ /\ dst' = [dst EXCEPT ![Cand(f)] = None]
                /\ faults' = faults
             \/ /\ MayFail
                /\ faults' = Faulted(TRUE)
                /\ dst' = dst
  /\ tpc' = [tpc EXCEPT ![f] = "o.mkdir"]
  /\ UNCHANGED << overFrame, srcExists, dstDirs, tmpFiles, base, outcome, failed,
                  wrote, tasks >>

\* os.MkdirAll(path.Dir(dstFile)) in a real run.
OverMkdir(f) ==
  /\ tpc[f] = "o.mkdir"
  /\ IF DryRun
     THEN /\ tpc' = [tpc EXCEPT ![f] = "o.transfer"]
          /\ UNCHANGED << dstDirs, failed, faults >>
     ELSE \/ /\ dstDirs' = dstDirs \cup {DirName(Cand(f))}
             /\ tpc' = [tpc EXCEPT ![f] = "o.transfer"]
             /\ UNCHANGED << failed, faults >>
          \/ /\ MayFail
             /\ faults' = Faulted(TRUE)
             /\ failed' = [failed EXCEPT ![f] = TRUE]
             /\ tpc' = [tpc EXCEPT ![f] = "o.end"]
             /\ dstDirs' = dstDirs
  /\ UNCHANGED << overFrame, srcExists, dst, tmpFiles, base, outcome, wrote, stats,
                  tasks >>

\* moveFile or copyFile to dstFile, or the report of a dry run.
OverTransfer(f) ==
  /\ tpc[f] = "o.transfer"
  /\ IF DryRun
     THEN UNCHANGED << srcExists, dst, tmpFiles, faults, failed, stats, wrote >>
     ELSE IF cfg.deleteOriginal
          THEN \E r \in MoveResults :
                 /\ r = "rename" \/ MayFail
                 /\ faults' = Faulted(r # "rename")
                 /\ moveFile(f, Cand(f), r)
                 /\ failed' = [failed EXCEPT ![f] = r \notin {"rename", "copy"}]
                 /\ stats' = IF r \in {"rename", "copy"}
                             THEN Count(stats, "moved", 1) ELSE stats
                 /\ wrote' = IF r \in {"rename", "copy", "removeerr"}
                             THEN [wrote EXCEPT ![f] = Cand(f)] ELSE wrote
          ELSE \E r \in CopyResults :
                 /\ r = "ok" \/ MayFail
                 /\ faults' = Faulted(r # "ok")
                 /\ copyFile(f, Cand(f), r)
                 /\ srcExists' = srcExists
                 /\ failed' = [failed EXCEPT ![f] = r # "ok"]
                 /\ stats' = IF r = "ok" THEN Count(stats, "copied", 1) ELSE stats
                 /\ wrote' = IF r = "ok" THEN [wrote EXCEPT ![f] = Cand(f)]
                             ELSE wrote
  /\ outcome' = [outcome EXCEPT ![f] = "placing"]
  /\ tpc' = [tpc EXCEPT ![f] = "o.end"]
  /\ UNCHANGED << overFrame, dstDirs, base, tasks >>

\* processFile has returned: count an error, then the deferred wg.Done() and
\* 'tasks <- token'.
OverDone(f) ==
  /\ tpc[f] = "o.end"
  /\ stats' = IF failed[f] THEN Count(stats, "errored", 1) ELSE stats
  /\ tasks' = tasks + 1
  /\ tpc' = [tpc EXCEPT ![f] = "done"]
  /\ UNCHANGED << overFrame, fsVars, base, outcome, failed, wrote >>

OverNext ==
  \E f \in Files :
    \/ OverDispatch(f)
    \/ OverStat(f)
    \/ OverHash(f)
    \/ OverDuplicate(f)
    \/ OverConflict(f)
    \/ OverBogus(f)
    \/ OverMkdir(f)
    \/ OverTransfer(f)
    \/ OverDone(f)

OverSpec == OverInit /\ [][OverNext]_vars

\* ------------------------------------------------------ normalize (main.go)

\* The characters of the strings passed to normalize: a lower-case letter, a
\* digit, an upper-case letter, accented letters in both cases, the space,
\* the file separator and a punctuation mark.  A character is a string; an
\* accented letter is written as the letter and the name of its accent.
NormChars == { "a", "0", "A", "a-acute", "N-tilde", " ", "-", "!" }

Strings == UNION { [1..n -> NormChars] : n \in 0..MaxLen }

\* A separator that holds a digit.
fileSeparatorMixed == << "-", "0" >>

fileSeparator == << "-" >>

reSpecialA == { "a-acute", "a-diaeresis", "a-circumflex", "a-tilde", "a-grave" }

reSpecialE == { "e-acute", "e-diaeresis", "e-circumflex", "e-tilde", "e-grave" }

reSpecialI == { "i-acute", "i-diaeresis", "i-circumflex", "i-tilde", "i-grave" }

reSpecialO == { "o-acute", "o-diaeresis", "o-circumflex", "o-tilde", "o-grave" }

reSpecialU == { "u-acute", "u-diaeresis", "u-circumflex", "u-tilde", "u-grave" }

reSpecialN == { "n-tilde" }

\* [a-z0-9], the characters reSpecialNotAlpha does not match.
LowerAlnum ==
  { "a", "b", "c", "d", "e", "f", "g", "h", "i", "j", "k", "l", "m", "n", "o", "p",
    "q", "r", "s", "t", "u", "v", "w", "x", "y", "z", "0", "1", "2", "3", "4", "5",
    "6", "7", "8", "9" }

\* unicode.IsSpace on the characters above.
WhiteSpace == { " " }

RECURSIVE TrimLeftSpace(_)
TrimLeftSpace(x) ==
  IF x # << >> /\ Head(x) \in WhiteSpace THEN TrimLeftSpace(Tail(x)) ELSE x

RECURSIVE TrimRightSpace(_)
TrimRightSpace(x) ==
  IF x # << >> /\ x[Len(x)] \in WhiteSpace
  THEN TrimRightSpace(SubSeq(x, 1, Len(x) - 1))
  ELSE x

\* strings.TrimSpace on a string given character by character.
TrimSpaces(x) == TrimRightSpace(TrimLeftSpace(x))

\* re.ReplaceAllLiteralString(x, repl) for a class of single characters.
ReplaceAllLiteralString(class, x, repl) ==
  [i \in DOMAIN x |-> IF x[i] \in class THEN repl ELSE x[i]]

\* reSpecialNotAlpha.ReplaceAllLiteralString(x, " ")
ReplaceNotAlpha(x) == [i \in DOMAIN x |-> IF x[i] \in LowerAlnum THEN x[i] ELSE " "]

\* reSpecialSpaces.ReplaceAllLiteralString(x, " "): every run of spaces
\* becomes one space.
RECURSIVE ReplaceSpaces(_)
ReplaceSpaces(x) ==
  IF Len(x) < 2 THEN x
  ELSE IF x[1] = " " /\ x[2] = " " THEN ReplaceSpaces(Tail(x))
  ELSE << x[1] >> \o ReplaceSpaces(Tail(x))

\* strings.Replace(x, " ", sep, -1)
RECURSIVE Replace(_, _)
Replace(x, sep) ==
  IF x = << >> THEN << >>
  ELSE (IF Head(x) = " " THEN sep ELSE << Head(x) >>) \o Replace(Tail(x), sep)

\* The body of normalize's loop for one input that is not empty once trimmed.
NormalizeInput(input) ==
  LET lower == ToLower(input)
      a == ReplaceAllLiteralString(reSpecialA, lower, "a")
      e == ReplaceAllLiteralString(reSpecialE, a, "e")
      i == ReplaceAllLiteralString(reSpecialI, e, "i")
      o == ReplaceAllLiteralString(reSpecialO, i, "o")
      u == ReplaceAllLiteralString(reSpecialU, o, "u")
      n == ReplaceAllLiteralString(reSpecialN, u, "n")
  IN Replace(TrimSpaces(ReplaceSpaces(ReplaceNotAlpha(n))), fileSeparator)

\* strings.Join(name, fileSeparator)
RECURSIVE Join(_, _)
Join(name, sep) ==
  IF name = << >> THEN << >>
  ELSE IF Len(name) = 1 THEN name[1]
  ELSE name[1] \o sep \o Join(Tail(name), sep)

\* The outputs normalize collects: one for each input that is not empty once
\* trimmed.
RECURSIVE NormalizedParts(_)
NormalizedParts(inputs) ==
  IF inputs = << >> THEN << >>
  ELSE IF TrimSpaces(Head(inputs)) = << >> THEN NormalizedParts(Tail(inputs))
  ELSE << NormalizeInput(TrimSpaces(Head(inputs))) >> \o NormalizedParts(Tail(inputs))

\* normalize(inputs...)
normalize(inputs) == Join(NormalizedParts(inputs), fileSeparator)

\* normalize applied to one string.
NormalizeInit ==
  /\ cfg = [dryRun |-> FALSE, deleteOriginal |-> FALSE, maxProcs |-> MaxProcs]
  /\ content = [f \in Files |-> 1]
  /\ Started
  /\ PhotoIdle
  /\ smu = 0
  /\ call = [f \in Files |-> NoCall]
  /\ applied = [k \in StatKinds |-> 0]
  /\ arg \in [fn : {"normalize"}, x : Strings]
  /\ res = NoValue

Normalize ==
  /\ res = NoValue
  /\ res' = [fn |-> "normalize", out |-> normalize(<< arg.x >>)]
  /\ UNCHANGED << cfg, content, statVars, photoVars, arg, fsVars, lockVars, taskVars, walkVars,
                  runVars, stats >>

NormalizeNext == Normalize

NormalizeSpec == NormalizeInit /\ [][NormalizeNext]_vars

\* ------------------------------------------------- Stats, step by step

\* The kinds that are counted when Stats is looked at on its own; the other
\* kinds are never passed to Count.
CountedKinds == { "copied", "skipped" }

\* The increments that are passed to Count.
Increments == { 1, 2 }

\* Three goroutines that share one Stats and call Count; nothing else runs.
StatsInit ==
  /\ cfg = [dryRun |-> FALSE, deleteOriginal |-> FALSE, maxProcs |-> MaxProcs]
  /\ content = [f \in Files |-> 1]
  /\ Started
  /\ AuxInit

\* What no step of Count touches.
statsFrame ==
  << cfg, content, funVars, photoVars, fsVars, lockVars, taskVars, walkVars, runVars >>

\* A mutex that excludes nobody.
StatsMuIgnored == TRUE

\* s.mu.Lock() can return: nobody is between Lock and Unlock.
StatsMuFree == smu = 0

\* Count(t, i) is called and s.mu.Lock() returns.
CountLock(f) ==
  /\ call[f].pc = "none"
  /\ call[f].n < MaxCounts
  /\ StatsMuFree
  /\ smu' = f
  /\ \E t \in CountedKinds, i \in Increments :
       call' = [call EXCEPT ![f] = [pc |-> "load", t |-> t, i |-> i, v |-> 0,
                                    n |-> call[f].n]]
  /\ UNCHANGED << statsFrame, stats, applied >>

\* 's.v[t] += i', the read: a key that was never written reads as zero.
CountLoad(f) ==
  /\ call[f].pc = "load"
  /\ call' = [call EXCEPT ![f].v = Get(call[f].t), ![f].pc = "store"]
  /\ UNCHANGED << statsFrame, stats, applied, smu >>

\* 's.v[t] += i', the write.
CountStore(f) ==
  /\ call[f].pc = "store"
  /\ stats' = [stats EXCEPT ![call[f].t] = call[f].v + call[f].i]
  /\ call' = [call EXCEPT ![f].pc = "unlock"]
  /\ UNCHANGED << statsFrame, applied, smu >>

\* The deferred s.mu.Unlock(); Count has then returned.
CountUnlock(f) ==
  /\ call[f].pc = "unlock"
  /\ smu' = 0
  /\ applied' = [applied EXCEPT ![call[f].t] = @ + call[f].i]
  /\ call' = [call EXCEPT ![f] = [NoCall EXCEPT !.n = call[f].n + 1]]
  /\ UNCHANGED << statsFrame, stats >>

StatsNext ==
  \E f \in Files :
    \/ CountLock(f)
    \/ CountLoad(f)
    \/ CountStore(f)
    \/ CountUnlock(f)

StatsSpec == StatsInit /\ [][StatsNext]_vars

\* ------------------------------------------------- photopy: Scandir, Import
\* photopy.go walks the same tree with one goroutine per file (Import), a
\* global task count (pcount) and a buffered channel (ok) on which every
\* task sends when it ends.

\* statsCopied, statsMoved, statsSkipped, statsNotExif
PhotoKinds == { "copied", "moved", "skipped", "notexif" }

\* The program has not been ended by a panic.
Alive == dpc # "crashed"

\* A Scandir that never waits for a task to finish.
PoolFullNever == FALSE

\* pcount >= *flagMaxProcs
PoolFull == pcount >= cfg.maxProcs

\* A main that prints the summary without waiting.
AllReceivedAlways == TRUE

\* The condition that ends main's loop 'for i := 0; i < pcount; i++'.
AllReceived == mi >= pcount

\* main up to its call of Scandir: 'ok = make(chan int, *flagMaxProcs)', both
\* directories verified, no task started, the counters at zero.
PhotoInit ==
  /\ cfg \in [dryRun : BOOLEAN, move : BOOLEAN, maxProcs : 0..MaxProcs]
  /\ content = [f \in Files |-> 1]
  /\ srcExists = [f \in Files |-> TRUE]
  /\ dst = [p \in Paths |-> None]
  /\ dstDirs = {}
  /\ table = {}
  /\ watchers = [p \in Paths |-> << >>]
  /\ mu = 0
  /\ ui = 0
  /\ held = [f \in Files |-> NoPath]
  /\ tpc = [f \in Files |-> "idle"]
  /\ base = [f \in Files |-> "none"]
  /\ idx = [f \in Files |-> 0]
  /\ outcome = [f \in Files |-> "none"]
  /\ failed = [f \in Files |-> FALSE]
  /\ wrote = [f \in Files |-> NoPath]
  /\ stats = [k \in PhotoKinds |-> 0]
  /\ tasks = 0
  /\ wg = [d \in Dirs |-> 0]
  /\ stack = << [dir |-> "root", pos |-> 0] >>
  /\ dpc = "open"
  /\ cur = 0
  /\ ret = [d \in Dirs |-> "none"]
  /\ tmpFiles = {}
  /\ faults = 0
  /\ run = 1
  /\ log = [r \in Runs |-> [dryRun |-> cfg.dryRun, maxProcs |-> cfg.maxProcs,
                            reports |-> [f \in Files |-> NoReport]]]
  /\ tmpData = [f \in Files |-> 0]
  /\ AuxInit

\* What no step of photopy touches.
photoFrame ==
  << cfg, content, statVars, funVars, srcExists, dst, dstDirs, tmpFiles, lockVars,
     base, idx, failed, wrote, tasks, wg, cur, ret, runVars >>

\* Scandir's os.Stat, os.Open and Readdir(-1).  An error returns at once;
\* no caller looks at it, main included.
ScandirOpen ==
  /\ Alive
  /\ dpc = "open"
  /\ \/ /\ dpc' = "loop"
        /\ UNCHANGED << stack, faults >>
     \/ /\ MayFail
        /\ faults' = Faulted(TRUE)
        /\ stack' = SubSeq(stack, 1, Len(stack) - 1)
        /\ dpc' = IF Len(stack) = 1 THEN "wait" ELSE "loop"
  /\ UNCHANGED << photoFrame, tpc, outcome, stats, photoVars >>

\* A directory entry: the recursive, synchronous Scandir(name, dest).
ScandirRecurse ==
  /\ Alive
  /\ dpc = "loop"
  /\ Top.pos < Len(Listing(Top.dir))
  /\ Entry.kind = "dir"
  /\ stack' = Append(Advanced, [dir |-> Entry.dir, pos |-> 0])
  /\ dpc' = "open"
  /\ UNCHANGED << photoFrame, tpc, outcome, stats, faults, photoVars >>

\* A file entry with pcount >= *flagMaxProcs: '<-ok' and 'pcount--'.
ScandirReceive ==
  /\ Alive
  /\ dpc = "loop"
  /\ Top.pos < Len(Listing(Top.dir))
  /\ Entry.kind = "file"
  /\ PoolFull
  /\ ok > 0
  /\ ok' = ok - 1
  /\ pcount' = pcount - 1
  /\ dpc' = "go"
  /\ UNCHANGED << photoFrame, tpc, outcome, stats, faults, stack, mi, reg >>

\* 'go Import(name, dest)' and 'pcount++'.
ScandirGo ==
  /\ Alive
  /\ \/ dpc = "go"
     \/ /\ dpc = "loop"
        /\ Top.pos < Len(Listing(Top.dir))
        /\ Entry.kind = "file"
        /\ ~PoolFull
  /\ tpc' = [tpc EXCEPT ![Entry.file] = "import"]
  /\ pcount' = pcount + 1
  /\ stack' = Advanced
  /\ dpc' = "loop"
  /\ UNCHANGED << photoFrame, outcome, stats, faults, ok, mi, reg >>

\* The end of Scandir's loop: 'return nil'.  The root call returns to main,
\* which starts its loop over pcount.
ScandirReturn ==
  /\ Alive
  /\ dpc = "loop"
  /\ Top.pos = Len(Listing(Top.dir))
  /\ stack' = SubSeq(stack, 1, Len(stack) - 1)
  /\ dpc' = IF Len(stack) = 1 THEN "wait" ELSE "loop"
  /\ UNCHANGED << photoFrame, tpc, outcome, stats, faults, photoVars >>

\* main: 'for i := 0; i < pcount; i++ { <-ok }', one iteration.
MainReceive ==
  /\ Alive
  /\ dpc = "wait"
  /\ ~AllReceived
  /\ ok > 0
  /\ ok' = ok - 1
  /\ mi' = mi + 1
  /\ UNCHANGED << photoFrame, tpc, outcome, stats, faults, stack, dpc, pcount, reg >>

\* main: the loop is over and the summary is printed from the four counters.
MainPrint ==
  /\ Alive
  /\ dpc = "wait"
  /\ AllReceived
  /\ dpc' = "done"
  /\ UNCHANGED << photoFrame, tpc, outcome, stats, faults, stack, photoVars >>

\* How Import can go: no EXIF data or no date field ("notexif"); the
\* destination exists ("skipped"); it does not and the file is copied or
\* moved ("placed"); or a panic, from an unparseable date (all[0] of an
\* empty match list), from os.MkdirAll or from the copy or move.
ImportBranches == { "notexif", "skipped", "placed", "panic" }

\* Import up to the branch it takes.  Every branch but the panic and the
\* dry-run copy or move goes on to increment its counter.
ImportBranch(f) ==
  /\ Alive
  /\ tpc[f] = "import"
  /\ \E b \in ImportBranches :
       /\ b = "panic" => MayFail
       /\ faults' = Faulted(b = "panic")
       /\ outcome' = [outcome EXCEPT ![f] =
                        IF b = "placed"
                        THEN IF cfg.move THEN "moved" ELSE "copied"
                        ELSE b]
       /\ tpc' = [tpc EXCEPT ![f] =
                    IF b = "panic" \/ (b = "placed" /\ cfg.dryRun)
                    THEN "defer" ELSE "load"]
  /\ UNCHANGED << photoFrame, stats, stack, dpc, photoVars >>

\* 'statsX++' on a package-level int, without any lock: the read.
ImportLoad(f) ==
  /\ Alive
  /\ tpc[f] = "load"
  /\ reg' = [reg EXCEPT ![f] = stats[outcome[f]]]
  /\ tpc' = [tpc EXCEPT ![f] = "store"]
  /\ UNCHANGED << photoFrame, outcome, stats, faults, stack, dpc, pcount, ok, mi >>

\* 'statsX++': the write.
ImportStore(f) ==
  /\ Alive
  /\ tpc[f] = "store"
  /\ stats' = [stats EXCEPT ![outcome[f]] = reg[f] + 1]
  /\ tpc' = [tpc EXCEPT ![f] = "defer"]
  /\ UNCHANGED << photoFrame, outcome, faults, stack, dpc, photoVars >>

\* The deferred 'ok <- 1', on the channel of capacity *flagMaxProcs; the
\* goroutine ends.  After a panic the deferred call runs and the program
\* ends.
ImportDone(f) ==
  /\ Alive
  /\ tpc[f] = "defer"
  /\ ok < cfg.maxProcs
  /\ ok' = ok + 1
  /\ tpc' = [tpc EXCEPT ![f] = "done"]
  /\ dpc' = IF outcome[f] = "panic" THEN "crashed" ELSE dpc
  /\ UNCHANGED << photoFrame, outcome, stats, faults, stack, pcount, mi, reg >>

PhotoNext ==
  \/ ScandirOpen
  \/ ScandirRecurse
  \/ ScandirReceive
  \/ ScandirGo
  \/ ScandirReturn
  \/ MainReceive
  \/ MainPrint
  \/ \E f \in Files :
       \/ ImportBranch(f)
       \/ ImportLoad(f)
       \/ ImportStore(f)
       \/ ImportDone(f)

PhotoSpec == PhotoInit /\ [][PhotoNext]_vars

\* ----------------------------------------------------------- properties

\* The task goroutines that exist: started and not yet ended.
Running == { f \in Files : tpc[f] \notin {"idle", "done"} }

\* The tasks whose processFile has returned and whose error has been counted.
Finished == { f \in Files : tpc[f] \in {"token", "done"} }

\* The run is over: the root call returned and no goroutine is left.
RunDone == dpc = "done" /\ Running = {}

\* C1: no two file tasks both perform a transfer (copy or move) to the same
\* final destination path.
C1_NoTwoTransfersToSamePath ==
  \A f, g \in Files :
    (f # g /\ wrote[f] # NoPath) => wrote[f] # wrote[g]

\* C2: once a file with content c is visible at a destination path, no step
\* of any task replaces it with a different content.
C2_NeverReplaced ==
  [][\A p \in Paths : dst[p] # None => dst'[p] = dst[p]]_vars

\* C3: no file is lost: in a real run with delete-original, the content of
\* every source file is at its source path or somewhere in the destination
\* tree, in every reachable state.
C3_NoFileLost ==
  (cfg.deleteOriginal /\ ~cfg.dryRun) =>
    \A f \in Files : srcExists[f] \/ \E p \in Paths : dst[p] = content[f]

\* C4: each destination path is claimed by at most one task at a time, and
\* every claim a task holds is an entry of the lock table.
C4_AtMostOneClaimant ==
  /\ \A f, g \in Files : (f # g /\ held[f] # NoPath) => held[f] # held[g]
  /\ \A f \in Files : held[f] # NoPath => held[f] \in table

\* C4's case: a task holds a path and AcquireLock has just refused the same
\* path to another task.
C4_Witness ==
  \E f, g \in Files :
    /\ f # g
    /\ held[f] # NoPath
    /\ tpc[g] = "watch"
    /\ Cand(g) = held[f]

\* C5: every task that failed AcquireLock(p) and called WatchUnlock(p) is
\* eventually signaled and continues.
C5_WaiterEventuallySignaled ==
  \A f \in Files : (tpc[f] = "wait") ~> (tpc[f] # "wait")

\* C6: under fair scheduling the run always completes: the root
\* processDirectory call returns and every dispatched task has finished.
\* Stated for the behaviours in which no filesystem call returns an error,
\* where every filesystem call returns under any reading of the premise.
C6_RunCompletes == <>(RunDone \/ faults > 0)

\* The errors counted so far must be: the finished tasks whose processFile
\* failed, and the subdirectories that could not be listed.
ErrorsDue ==
  Cardinality({ f \in Finished : failed[f] })
    + Cardinality({ d \in Dirs \ {"root"} : ret[d] = "err" })

\* C7: a failing file task increments the errored counter by exactly 1 and
\* never keeps the walk from going on: the dispatcher is never left waiting
\* for the 'next' of a task that has already ended.
C7_FailureCountedWalkGoesOn ==
  /\ Get("errored") = ErrorsDue
  /\ \A f \in Finished : failed[f] => ~(dpc = "next" /\ cur = f)

\* C8: at most N file tasks are running, N being -max-procs, whatever the
\* directory they were dispatched from.
C8_AtMostNRunning == Cardinality(Running) <= cfg.maxProcs

\* C8's case: N = 2 tasks of two different directories are running and the
\* dispatcher is blocked on '<-tasks' for a third file.
C8_Witness ==
  /\ cfg.maxProcs = 2
  /\ Running = {1, 2}
  /\ dpc = "loop"
  /\ Top.pos < Len(Listing(Top.dir))
  /\ Entry.kind = "file"
  /\ tasks = 0

\* C9: tokens are conserved: the tokens in the channel and the tokens held by
\* task goroutines are N together, so the channel holds N again when all
\* tasks have ended, whether they failed or not.
C9_TokensConserved ==
  /\ tasks + Cardinality(Running) = cfg.maxProcs
  /\ Running = {} => tasks = cfg.maxProcs

\* C9's case: a task that failed has given its token back.
C9_Witness ==
  \E f \in Files :
    /\ failed[f]
    /\ tpc[f] = "done"
    /\ tasks + Cardinality(Running) = cfg.maxProcs

\* A processDirectory call that has returned left no task of its directory,
\* or of a directory below it, inside processFile; one that returned nil
\* dispatched every file of its directory.
DescendantsFinished ==
  \A d \in Dirs :
    /\ ret[d] # "none" =>
         \A f \in Files :
           DirOf(f) \in Below(d) => (tpc[f] = "idle" \/ f \in Finished)
    /\ ret[d] = "nil" =>
         \A f \in Files : DirOf(f) = d => f \in Finished

\* C10: processDirectory(d) returns only after every task dispatched for d
\* and below has finished processFile, and once the root call has returned
\* the counters do not change any more.
C10_ReturnsAfterDescendants ==
  /\ []DescendantsFinished
  /\ [][dpc = "done" => stats' = stats]_vars

\* C10's case: the call for "sub" has returned, its file is finished, and a
\* task of the parent directory is still inside processFile.
C10_Witness ==
  /\ ret["sub"] = "nil"
  /\ 2 \in Finished
  /\ 1 \in Running \ Finished

\* The files a task of this run transferred to a path of destination b.
PlacedAt(b) == { f \in Files : wrote[f] # NoPath /\ DirName(wrote[f]) = b }

\* C11: when the run is over, the files with pairwise different contents
\* that were placed under the same base path occupy the suffixes 0, 1, ...
\* one file each: one at the first candidate and the others at increasing
\* suffixes without a gap.
C11_GapFreeSuffixes ==
  RunDone =>
    \A b \in Bases :
      (\A f, g \in PlacedAt(b) : f # g => content[f] # content[g]) =>
        /\ { wrote[f][2] : f \in PlacedAt(b) } = 0 .. (Cardinality(PlacedAt(b)) - 1)
        /\ \A f, g \in PlacedAt(b) : f # g => wrote[f] # wrote[g]

\* C12: when Unlock(p) completes, p leaves the lock table, the waiter list
\* of p is empty, the loop has sent one signal to each waiter registered for
\* p, and none of them is still blocked; each signal wakes exactly the
\* waiter the loop has reached and nobody else.
C12_UnlockReleasesAndSignals ==
  [][\A f \in Files :
       tpc[f] = "unlocking" =>
         /\ tpc'[f] = "exit" =>
               /\ held[f] \notin table'
               /\ watchers'[held[f]] = << >>
               /\ ui = Len(watchers[held[f]]) + 1
               /\ \A k \in 1..Len(watchers[held[f]]) :
                     /\ tpc[watchers[held[f]][k]] # "wait"
                     /\ \A j \in 1..Len(watchers[held[f]]) :
                           j # k => watchers[held[f]][j] # watchers[held[f]][k]
         /\ ui' = ui + 1 =>
               /\ tpc[watchers[held[f]][ui]] = "wait"
               /\ tpc'[watchers[held[f]][ui]] = "hash"
               /\ \A g \in Files \ {watchers[held[f]][ui]} : tpc'[g] = tpc[g]]_vars

\* C12's case: Unlock has completed for a path on which another task was
\* waiting; the claimant created nothing, so only the signal can have
\* brought the waiter to hash the destination.
C12_Witness ==
  \E f, w \in Files :
    /\ f # w
    /\ tpc[f] = "exit"
    /\ outcome[f] \in {"placing", "mkdirerr"}
    /\ tpc[w] = "hash"
    /\ Cand(w) = Cand(f)
    /\ dst[Cand(f)] = None
    /\ Cand(f) \notin table
    /\ watchers[Cand(f)] = << >>

\* C13: a task whose processFile has returned holds no claim, whether it
\* succeeded or failed after the claim; the lock table holds exactly the
\* claims of the tasks still inside processFile, and it is empty once no
\* task is running.
C13_ClaimReleased ==
  /\ \A f \in Files :
       tpc[f] \in {"idle", "exit", "token", "done"} => held[f] = NoPath
  /\ table = { held[f] : f \in Files } \ {NoPath}
  /\ Running = {} => table = {}

\* C13's case: a task failed after its claim, in MkdirAll or in the copy or
\* move, processFile has returned, and the lock table is empty.
C13_Witness ==
  \E f \in Files :
    /\ failed[f]
    /\ outcome[f] \in {"mkdirerr", "placing"}
    /\ tpc[f] = "exit"
    /\ held[f] = NoPath
    /\ table = {}

\* C14: a task never ends with the error of fileHash(dstFile) on a
\* destination path that does not exist: after the signal it looks at the
\* path again and hashes only a file that is there.
C14_WaiterNoErrorOnMissing ==
  \A f \in Files : outcome[f] = "hasherr" => dst[Cand(f)] # None

\* The step in which task f leaves the duplicate branch.
DuplicateStep(f) ==
  /\ tpc[f] = "post"
  /\ outcome[f] = "duplicate"
  /\ tpc'[f] = "exit"

\* What every duplicate does: nothing written, duplicated + 1, copied and
\* moved untouched.
DuplicateCommon ==
  /\ dst' = dst
  /\ stats'["duplicated"] = stats["duplicated"] + 1
  /\ stats'["copied"] = stats["copied"]
  /\ stats'["moved"] = stats["moved"]

\* C15 as stated: a duplicate writes nothing, increments duplicated by 1 and
\* neither copied nor moved; with delete-original in a real run it removes
\* the source and increments deleted, otherwise it increments skipped.
C15_DuplicateEffects ==
  [][\A f \in Files :
       DuplicateStep(f) =>
         /\ DuplicateCommon
         /\ IF cfg.deleteOriginal /\ ~cfg.dryRun
            THEN ~srcExists'[f] /\ stats'["deleted"] = stats["deleted"] + 1
            ELSE stats'["skipped"] = stats["skipped"] + 1]_vars

\* C15, amended: a duplicate writes nothing, increments duplicated by 1 and
\* neither copied nor moved.  Without delete-original it increments skipped.
\* With delete-original in a dry run it changes no other counter and keeps
\* the source.  With delete-original in a real run it removes the source and
\* increments deleted, unless os.Remove fails: then the source stays, no
\* other counter changes and the task returns the error.
C15_DuplicateEffectsAmended ==
  [][\A f \in Files :
       DuplicateStep(f) =>
         /\ DuplicateCommon
         /\ IF ~cfg.deleteOriginal
            THEN /\ stats'["skipped"] = stats["skipped"] + 1
                 /\ stats'["deleted"] = stats["deleted"]
                 /\ srcExists' = srcExists
                 /\ ~failed'[f]
            ELSE /\ stats'["skipped"] = stats["skipped"]
                 /\ IF cfg.dryRun
                    THEN /\ stats'["deleted"] = stats["deleted"]
                         /\ srcExists' = srcExists
                         /\ ~failed'[f]
                    ELSE \/ /\ ~srcExists'[f]
                            /\ stats'["deleted"] = stats["deleted"] + 1
                            /\ ~failed'[f]
                         \/ /\ srcExists' = srcExists
                            /\ stats'["deleted"] = stats["deleted"]
                            /\ failed'[f]]_vars

\* C15's case: in a dry run with delete-original a task has left the
\* duplicate branch: counted as duplicated, not skipped, the source in place.
C15_Witness ==
  \E f \in Files :
    /\ cfg.dryRun
    /\ cfg.deleteOriginal
    /\ outcome[f] = "duplicate"
    /\ tpc[f] = "exit"
    /\ Get("duplicated") >= 1
    /\ Get("skipped") = 0
    /\ srcExists[f]

\* Both invocations are real runs in copy mode and no filesystem call has
\* returned an I/O error.
TwoCopyRuns ==
  /\ run = 2
  /\ ~log[1].dryRun
  /\ ~cfg.dryRun
  /\ ~cfg.deleteOriginal
  /\ faults = 0

\* C16: in a second real run in copy mode over the same directories, no
\* step writes to the destination tree, and every file the first run placed
\* is reported as a duplicate.
C16_SecondRunAllDuplicates ==
  /\ [][(TwoCopyRuns /\ run' = run) => dst' = dst]_vars
  /\ [](TwoCopyRuns =>
          \A f \in Files :
            (log[1].reports[f].kind = "placed" /\ log[2].reports[f].kind # "none")
              => log[2].reports[f].kind = "duplicate")

\* C17: in a dry run no step changes the source tree or the destination
\* tree: no file removed, no file written, no directory made, no temporary
\* file left.
C17_DryRunMutatesNothing ==
  [][cfg.dryRun => UNCHANGED << srcExists, dst, dstDirs, tmpFiles >>]_vars

\* C17's case: a dry run with delete-original over a destination that holds
\* files has ended, and it reported a duplicate whose source is in place.
C17_Witness ==
  /\ run = 2
  /\ cfg.dryRun
  /\ cfg.deleteOriginal
  /\ RunDone
  /\ \E p \in Paths : dst[p] # None
  /\ \E f \in Files : log[2].reports[f].kind = "duplicate" /\ srcExists[f]

\* C18: a dry run and the real run that follows it on the same trees, both
\* with one task at a time (the same schedule) and without an I/O error,
\* report the same for every file: the same kind and the same path.
C18_DryRunSameClassification ==
  (/\ run = 2
   /\ log[1].dryRun
   /\ ~log[2].dryRun
   /\ log[1].maxProcs = 1
   /\ log[2].maxProcs = 1
   /\ faults = 0
   /\ RunDone) =>
    \A f \in Files : log[2].reports[f] = log[1].reports[f]

\* C19: a subdirectory that could not be listed is counted as one error and
\* none of its files is dispatched, while the walk of the parent goes on at
\* the entry after it: the parent's call does not end before the later
\* entry has been dispatched.
C19_SubtreeAbortedOnly ==
  ret["sub"] = "err" =>
    /\ tpc[2] = "idle"
    /\ Get("errored") = ErrorsDue
    /\ Get("errored") >= 1
    /\ tpc[3] = "idle" =>
          /\ dpc = "loop"
          /\ stack = << [dir |-> "root", pos |-> 2] >>

\* C19's case: "sub" could not be listed, the walk is over, and the file
\* listed after "sub" in the parent has been processed.
C19_Witness ==
  /\ ret["sub"] = "err"
  /\ dpc = "done"
  /\ tpc[3] = "done"
  /\ Get("errored") >= 1

\* C20: copyFile is atomic for readers of dst: in every state of a copy,
\* one that fails part-way included, a final name holds no file or a complete
\* file, and a step changes what a final name holds only by putting the
\* complete content of the source of a task that copies to that name there.
C20_CopyAtomic ==
  /\ [](\A q \in Paths : dst[q] \in {None} \cup Contents)
  /\ [][\A q \in Paths :
          dst'[q] # dst[q] =>
            \E f \in Files : q = Cand(f) /\ dst'[q] = content[f]]_vars

\* C20's case: one copy has failed part-way, its temporary file holds a part
\* of the source and the final name still holds what it held before, while
\* another copy has put a complete file at its final name.
C20_Witness ==
  \E f, g \in Files :
    /\ tpc[f] = "copy.end"
    /\ failed[f]
    /\ f \in tmpFiles
    /\ tmpData[f] > 0
    /\ tmpData[f] < NumChunks
    /\ dst[Cand(f)] # content[f]
    /\ tpc[g] = "copy.end"
    /\ ~failed[g]
    /\ dst[Cand(g)] = content[g]

\* The step of task f that is its moveFile call: a real run with
\* -delete-original that reached the transfer.
MoveStep(f) ==
  /\ tpc[f] = "post"
  /\ outcome[f] = "placing"
  /\ tpc'[f] = DeferredUnlock
  /\ cfg.deleteOriginal
  /\ ~cfg.dryRun

\* C21: moveFile returns success only when dst holds the source content
\* and src no longer exists; when it fails without having put a file at
\* dst (rename and the fallback copy both failed), the source is still in
\* place and the final name holds what it held before.
C21_MoveFile ==
  [][\A f \in Files :
       MoveStep(f) =>
         /\ ~failed'[f] => (dst'[Cand(f)] = content[f] /\ ~srcExists'[f])
         /\ (failed'[f] /\ wrote'[f] = NoPath) =>
              (srcExists'[f] /\ dst' = dst)]_vars

\* C21's case: a moveFile whose rename and fallback copy failed has
\* returned, the source is in place, and another moveFile has succeeded.
C21_Witness ==
  /\ cfg.deleteOriginal
  /\ ~cfg.dryRun
  /\ \E f \in Files :
       /\ tpc[f] = DeferredUnlock
       /\ failed[f]
       /\ wrote[f] = NoPath
       /\ srcExists[f]
  /\ \E g \in Files : wrote[g] # NoPath /\ ~srcExists[g] /\ dst[wrote[g]] = content[g]

\* C22: whenever no Count call is under way, Get(k) is the sum of the
\* increments of the calls that returned, for every kind; a kind that was
\* never passed to Count reads 0; and no step lowers a counter.
C22_StatsLoseNoUpdate ==
  /\ []((\A f \in Files : call[f].pc = "none") =>
          \A k \in StatKinds : Get(k) = applied[k])
  /\ [](\A k \in StatKinds :
          (applied[k] = 0 /\ \A f \in Files : call[f].t # k) => Get(k) = 0)
  /\ [][\A k \in StatKinds : stats'[k] >= stats[k]]_vars

\* C22's case: every goroutine has made all its calls, calls of different
\* goroutines went to the same kind, and both counted kinds were counted.
C22_Witness ==
  /\ \A f \in Files : call[f].n = MaxCounts /\ call[f].pc = "none"
  /\ Get("copied") >= 3
  /\ Get("skipped") >= 3
  /\ Get("errored") = 0

\* C23: when the restriction set is non-empty and does not hold the
\* lower-cased extension of the file, the extension test ends the file's
\* processing as skipped; and a skipped file is not processed further: each
\* step of its task, from the test to the end of the goroutine, leaves the
\* source tree, the destination tree and the lock table as they are, the
\* task holds no claim and returns no error, and the only change of a
\* counter is the one step that adds exactly 1 to skipped.
C23_RestrictedSkipped ==
  /\ [][(/\ tpc[TestedFile] = "start"
         /\ tpc'[TestedFile] # "start"
         /\ arg.restrict # {}
         /\ ToLower(arg.ext) \notin arg.restrict) =>
          outcome'[TestedFile] = "skipped"]_vars
  /\ [][\A f \in Files :
         ((outcome[f] = "skipped" \/ outcome'[f] = "skipped") /\ tpc'[f] # tpc[f]) =>
           /\ UNCHANGED << srcExists, dst, dstDirs, tmpFiles, table, watchers, held >>
           /\ held[f] = NoPath
           /\ base'[f] = "none"
           /\ ~failed'[f]
           /\ tpc'[f] \in {"next", "post", "exit", "token", "done"}
           /\ stats' = IF tpc[f] = "post" THEN Count(stats, "skipped", 1)
                       ELSE stats]_vars

\* C23's case: the run is over, the file whose extension is not in the
\* non-empty restriction set was skipped and counted, and another file was
\* placed.
C23_Witness ==
  /\ RunDone
  /\ arg.restrict # {}
  /\ ToLower(arg.ext) \notin arg.restrict
  /\ \E f, g \in Files :
       /\ f = TestedFile
       /\ log[run].reports[f].kind = "skipped"
       /\ log[run].reports[g].kind = "placed"
       /\ wrote[g] # NoPath
  /\ Get("skipped") >= 1

\* The entries of the tree whose name starts with a dot.
DotEntries ==
  { e \in UNION { { Listing(d)[i] : i \in 1..Len(Listing(d)) } : d \in Dirs } :
      HasPrefix(Name(e), << "." >>) }

\* C24: unless hidden files are allowed, no task is ever started for a
\* file whose name starts with a dot, a directory whose name starts with a
\* dot is never opened (and nothing in it is dispatched), and the step that
\* passes over such an entry changes no counter: it only moves the loop on.
C24_HiddenSkipped ==
  /\ [](~arg.allowHidden =>
          \A e \in DotEntries :
            IF e.kind = "file" THEN tpc[e.file] = "idle"
            ELSE /\ ret[e.dir] = "none"
                 /\ \A i \in 1..Len(stack) : stack[i].dir # e.dir
                 /\ \A f \in Files : DirOf(f) = e.dir => tpc[f] = "idle")
  /\ [][(/\ ~arg.allowHidden
         /\ dpc = "loop"
         /\ Top.pos < Len(Listing(Top.dir))
         /\ Entry \in DotEntries
         /\ stack' # stack) =>
          /\ stack' = Advanced
          /\ UNCHANGED << stats, tpc, tasks, wg, dpc, cur, ret >>]_vars

\* C24's case: hidden files are not allowed, the walk is over, it passed
\* over a hidden file and a hidden directory, and it placed the file that is
\* not hidden.
C24_Witness ==
  /\ ~arg.allowHidden
  /\ RunDone
  /\ \E e \in DotEntries : e.kind = "file"
  /\ \E e \in DotEntries : e.kind = "dir"
  /\ ret["root"] = "nil"
  /\ log[1].reports[1].kind = "placed"
  /\ log[1].reports[2].kind = "none"
  /\ log[1].reports[3].kind = "none"

\* Whether the tags hold a capture timestamp that can be resolved: some
\* candidate field is present with a value that parses and whose year is
\* not zero.
Resolvable(tags) ==
  \E i \in 1..Len(dateTimeFields) :
    /\ Has(tags, dateTimeFields[i])
    /\ Len(FindDateTime(tags[dateTimeFields[i]])) = 6
    /\ FindDateTime(tags[dateTimeFields[i]])[1] # 0

\* The file has a camera or vendor tag and is not a music file.
HasVendor(tags) ==
  /\ ~Has(tags, "Track")
  /\ \/ pick(<< Lookup(tags, "Make") >>) # ""
     \/ pick(<< Lookup(tags, "Model") >>) # ""

\* C25: for a file with a camera or vendor tag but no resolvable capture
\* timestamp, guessFileDestination returns MissingCreateTime and no path.
C25_MissingCreateTime ==
  (/\ res.dest # Pending
   /\ arg.exif
   /\ HasVendor(arg.tags)
   /\ ~Resolvable(arg.tags)) =>
    /\ res.dest.err = "MissingCreateTime"
    /\ res.dest.path = << >>

\* The earliest candidate field that is present with a value that parses and
\* whose year is not zero.
FirstResolvable(tags) ==
  CHOOSE i \in 1..Len(dateTimeFields) :
    /\ Has(tags, dateTimeFields[i])
    /\ Len(FindDateTime(tags[dateTimeFields[i]])) = 6
    /\ FindDateTime(tags[dateTimeFields[i]])[1] # 0
    /\ \A j \in 1..(i - 1) :
         ~ /\ Has(tags, dateTimeFields[j])
           /\ Len(FindDateTime(tags[dateTimeFields[j]])) = 6
           /\ FindDateTime(tags[dateTimeFields[j]])[1] # 0

\* C26: getExifCreateDate passes over candidate fields that are absent,
\* unparseable or of year zero: it returns the time of the first field that
\* resolves, and MissingCreateTime only when no field of the list does.
C26_UnparseableContinues ==
  res.date # Pending =>
    IF Resolvable(arg.tags)
    THEN /\ res.date.err = "nil"
         /\ res.date.t = FindDateTime(arg.tags[dateTimeFields[FirstResolvable(arg.tags)]])
    ELSE res.date.err = "MissingCreateTime"

\* C27: without -all, a file with no track, camera or vendor tag gets no
\* path under Other: guessFileDestination returns the Unknown error (and
\* processFile then counts the file as unknown).
C27_UntaggedUnknown ==
  (/\ res.dest # Pending
   /\ ~arg.acceptAll
   /\ ~Has(arg.tags, "Track")
   /\ pick(<< Lookup(arg.tags, "Make") >>) = ""
   /\ pick(<< Lookup(arg.tags, "Model") >>) = "") =>
    /\ res.dest.err = "Unknown"
    /\ res.dest.path = << >>

\* The resolved destination of task f holds a file whose content differs
\* from f's source.
Conflicting(f) ==
  /\ base[f] # "none"
  /\ dst[Cand(f)] # None
  /\ dst[Cand(f)] # content[f]

\* The comparison of the hashes sends a task whose destination differs to
\* the conflict branch when overwrite is disabled.
C28_ConflictDetected ==
  [][\A f \in Files :
       (/\ ~cfg.overwrite
        /\ tpc[f] = "o.hash"
        /\ tpc'[f] # "o.hash"
        /\ Conflicting(f)
        /\ faults' = faults) => tpc'[f] = "o.conflict"]_vars

\* The conflict branch returns the error, adds 1 to skipped and touches no
\* file.
C28_ConflictBranch ==
  [][\A f \in Files :
       (tpc[f] = "o.conflict" /\ tpc'[f] # "o.conflict") =>
         /\ failed'[f]
         /\ stats' = Count(stats, "skipped", 1)
         /\ UNCHANGED << srcExists, dst, dstDirs, tmpFiles >>]_vars

\* C28: in main.go with overwrite disabled, a task whose resolved
\* destination exists with content different from its source fails with the
\* conflict error and increments skipped, and no step of such a task changes
\* the destination file or the source file, whatever other tasks that
\* resolve to the same path are doing.
C28_ConflictLeavesFiles ==
  /\ C28_ConflictDetected
  /\ C28_ConflictBranch
  /\ [][~cfg.overwrite =>
          \A f \in Files :
            (tpc'[f] # tpc[f] /\ Conflicting(f)) =>
              /\ dst'[Cand(f)] = dst[Cand(f)]
              /\ srcExists'[f] = srcExists[f]]_vars

\* C29: an operation that holds the lock manager's mutex never has to wait
\* for another task: whenever Unlock, inside its critical section, is about
\* to send to a waiter, that waiter is at its receive.
C29_NoWaitUnderMutex ==
  \A f \in Files :
    (tpc[f] = "unlocking" /\ mu = f /\ ui <= Len(watchers[held[f]])) =>
      tpc[watchers[held[f]][ui]] = "wait"

\* C30: normalize is idempotent on a single input: normalizing the result
\* of normalize once more gives the same string.
C30_NormalizeIdempotent ==
  res.fn = "normalize" => normalize(<< res.out >>) = res.out

\* C30's case: an input with an upper-case letter, an accented letter,
\* punctuation and a space has been normalized to two words joined by the
\* separator, which the second pass has to take apart and join again.
C30_Witness ==
  /\ res.fn = "normalize"
  /\ arg.x = << "N-tilde", "!", " ", "A" >>
  /\ res.out = << "n", "-", "a" >>

\* The position of file f in the listing of its directory.
PosOf(f) ==
  CHOOSE k \in 1..Len(Listing(DirOf(f))) :
    Listing(DirOf(f))[k].kind = "file" /\ Listing(DirOf(f))[k].file = f

\* The files that dir.Readdir lists before f in the directory of f.
Earlier(f) == { g \in Files : DirOf(g) = DirOf(f) /\ PosOf(g) < PosOf(f) }

\* Task g is past its 'next <- true'.
SentNext(g) ==
  /\ tpc[g] \in {"post", "unlock", "unlocking", "exit", "token", "done"}
  /\ outcome[g] # "mkdirerr"

\* What a task has reached when it sends 'next': its claim, or one of the
\* ends that need none.
Settled(f) ==
  \/ held[f] # NoPath
  \/ outcome[f] \in {"skipped", "unknown", "duplicate", "hasherr"}

\* C31: within one directory files are processed in order: a file's task is
\* started only when every file listed before it has sent 'next'; a task
\* sends 'next' only with its claim acquired or ended as skipped, unknown,
\* duplicate or hash error; so a claim is acquired only when every file
\* listed before has sent 'next', after which a task acquires no claim.
C31_InListingOrder ==
  [][\A f \in Files :
       /\ (tpc[f] \in {"idle", "done"} /\ tpc'[f] = "start") =>
             \A g \in Earlier(f) : SentNext(g)
       /\ (tpc[f] = "next" /\ tpc'[f] = "post") => Settled(f)
       /\ (held[f] = NoPath /\ held'[f] # NoPath) =>
             \A g \in Earlier(f) : SentNext(g)
       /\ (SentNext(f) /\ held[f] = NoPath) => held'[f] = NoPath]_vars

\* C31's case: file 1 and file 3 of the root directory both hold a claim,
\* file 1 on the first candidate and file 3, listed after it, on the next
\* suffix of the same destination.
C31_Witness ==
  /\ held[1] = CandidatePath("a", 0)
  /\ held[3] = CandidatePath("a", 1)
  /\ SentNext(1)
  /\ SentNext(3)

\* C32: every execution of processFile sends exactly one value on 'next':
\* processFile never returns while the dispatcher still waits for its send.
C32_ExactlyOneNext ==
  \A f \in Files :
    tpc[f] \in {"exit", "token", "done"} => ~(dpc = "next" /\ cur = f)

\* Task f is in its transfer phase: past 'next <- true', with its claim,
\* about to copy or move.
InTransfer(f) ==
  /\ tpc[f] = "post"
  /\ outcome[f] = "placing"
  /\ held[f] # NoPath

\* C33: the dispatch handshake does not serialize transfers: a task in its
\* transfer phase never keeps the dispatcher waiting for its 'next', so that
\* the next file of the directory can be dispatched while it copies or moves.
C33_TransfersNotSerialized ==
  \A f \in Files : InTransfer(f) => ~(dpc = "next" /\ cur = f)

\* C33's case: in a real run with -max-procs 2, files 1 and 3, both of the
\* root directory, are in their transfer phase at the same time.
C33_Witness ==
  /\ cfg.maxProcs >= 2
  /\ ~cfg.dryRun
  /\ DirOf(1) = DirOf(3)
  /\ InTransfer(1)
  /\ InTransfer(3)

\* C34: whenever no lock-manager operation is in progress, every path with
\* a registered waiter is in the lock table.
C34_WaitersOnClaimedPaths ==
  mu = 0 => \A p \in Paths : watchers[p] # << >> => p \in table

\* C35: a file is created or replaced at a destination path only by a task
\* that holds the claim on exactly that path, and a task that acquires a
\* claim holds no other.
C35_WritesUnderClaim ==
  [][/\ \A p \in Paths :
          dst'[p] # dst[p] =>
            \E f \in Files :
              /\ tpc[f] = "post"
              /\ held[f] = p
              /\ held'[f] = p
              /\ p \in table
              /\ dst'[p] = content[f]
     /\ \A f \in Files :
          (held'[f] # held[f] /\ held'[f] # NoPath) => held[f] = NoPath]_vars

\* C35's case: a task that found the first candidate taken by a different
\* file has put its file at the second candidate and still holds its claim.
C35_Witness ==
  \E f \in Files :
    /\ held[f] = CandidatePath(base[f], 1)
    /\ wrote[f] = held[f]
    /\ dst[held[f]] = content[f]
    /\ dst[CandidatePath(base[f], 0)] \notin {None, content[f]}

\* C36: a copyFile call that fails leaves no temporary file in the
\* destination's parent directory.
C36_NoTempFileLeft ==
  \A f \in Files : (tpc[f] = "copy.end" /\ failed[f]) => f \notin tmpFiles

\* C37: in photopy at most max-procs Import tasks are running at any time,
\* whatever the directory they were started from: the running tasks and the
\* signals not yet received are never more than pcount, which Scandir keeps
\* at or below max-procs.
C37_AtMostMaxProcsImports ==
  /\ Cardinality(Running) <= cfg.maxProcs
  /\ Cardinality(Running) + ok <= pcount
  /\ pcount <= cfg.maxProcs

\* C37's case: with max-procs 2 the tasks of file 1 (root) and file 2 (sub)
\* are running, and Scandir, back in the root call, is at '<-ok' for file 3.
C37_Witness ==
  /\ cfg.maxProcs = 2
  /\ Running = {1, 2}
  /\ pcount = 2
  /\ ok = 0
  /\ dpc = "loop"
  /\ Top.dir = "root"
  /\ Top.pos < Len(Listing(Top.dir))
  /\ Entry.file = 3

\* The tasks that have ended in the branch that counts as k.
Took(k) == { f \in Files : tpc[f] = "done" /\ outcome[f] = k }

\* C38: in photopy the summary is printed only after every Import task that
\* Scandir started has completed, and in a real run the printed counters
\* equal the number of tasks that took each branch.
C38_SummaryAfterAllTasks ==
  dpc = "done" =>
    /\ \A f \in Files : tpc[f] \in {"idle", "done"}
    /\ ~cfg.dryRun => \A k \in PhotoKinds : stats[k] = Cardinality(Took(k))

====
